---- MODULE Spec2Model ----
(***************************************************************************)
(* Consensus labels from several annotators: cleanlab/multiannotator.py.   *)
(*                                                                         *)
(* A label matrix is a function [0..N-1 -> [0..M-1 -> class id or NaN]],   *)
(* row i being example i and column j annotator j (a numpy array, so the   *)
(* DataFrame built from it has the column names 0..M-1).  Predicted        *)
(* probabilities are integers counted in units of 1/ProbDen.  Arithmetic   *)
(* on means is exact (rationals <<numerator, denominator>>); a mean over   *)
(* nothing is NaNQ, and every comparison with NaNQ is false, as in numpy.  *)
(***************************************************************************)
EXTENDS Integers, Sequences, FiniteSets, TLC

VARIABLES
    entry,                  \* the function that was called
    labels_multiannotator,  \* argument: the N x M label matrix
    pred_probs,             \* argument: the N x K matrix, or None
    pc,                     \* position in the called function
    majority_vote_label,    \* get_majority_vote_label: the label vector being filled
    nontied_idx,            \* get_majority_vote_label: examples with a single mode
    tied_idx,               \* get_majority_vote_label: example -> remaining candidates
    tied_copy,              \* the tied_idx.copy() the latest stage iterated over (empty
                            \* when the stage was skipped)
    warnings,               \* warnings.warn calls so far, in order
    error,                  \* the exception that ended the call, or "none"
    consensus_method,       \* argument: the list of requested consensus methods
    quality_method,         \* argument: the quality method
    num_annotations,        \* get_label_quality_multiannotator: labels per example
    MV_stats,               \* the statistics of the majority vote labels, or None
    curr,                   \* the position in consensus_method of the next pass
    main_method,            \* TRUE until the first method has filled the main columns
    label_quality,          \* the table being built: column name -> column
    return_detailed_quality,\* argument: whether the detailed table is asked for
    return_annotator_stats, \* argument: whether the annotator table is asked for
    detailed_label_quality, \* the score of every annotator's labels, or None
    annotator_stats,        \* the table of the annotators, or None
    first_call,             \* what an earlier call on the same arguments returned,
                            \* or None
    verbose,                \* argument: whether notes are printed
    printed                 \* the notes printed so far, in order

\* the state of get_label_quality_multiannotator outside the majority vote
tables == <<return_detailed_quality, return_annotator_stats, detailed_label_quality,
            annotator_stats>>
console == <<verbose, printed>>
call_vars == <<consensus_method, quality_method, num_annotations, MV_stats, curr,
               main_method, label_quality, tables, first_call, console>>

vars == <<entry, labels_multiannotator, pred_probs, pc, majority_vote_label,
          nontied_idx, tied_idx, tied_copy, warnings, error, call_vars>>

(***************************************************************************)
(* Bounds of the model.                                                    *)
(***************************************************************************)
MaxExamples == 3
MaxAnnotators == 4
MaxClasses == 3
\* probabilities are multiples of 1/ProbDen
ProbDen == 2
\* a shape (N, M, K, with or without pred_probs) is explored when it has at
\* most this many inputs
MaxInputs == 20000
\* a shape (N, M, K) of a get_label_quality_multiannotator call is explored
\* when it has at most this many inputs
MaxCalls == 1000
\* the longest list of consensus methods
MaxMethods == 2
\* the most calls of one shape the calls that ask for every table are drawn from
MaxStatsCalls == 1000
\* the shape of the label matrices of the calls that are made twice
TwiceExamples == 2
TwiceAnnotators == 2
TwiceClasses == 3
\* the shape of the label matrices in which an annotator may share no example
\* with another
OverlapExamples == 2
OverlapAnnotators == 3
OverlapClasses == 2
\* the shape of the label matrices of the calls with lists of methods
ListsExamples == 2
ListsAnnotators == 2
ListsClasses == 3
\* the shape of the label matrices without missing labels
DenseExamples == 3
DenseAnnotators == 3
DenseClasses == 2

(***************************************************************************)
(* Values.                                                                 *)
(***************************************************************************)
NaN == -1
None == <<>>
EmptyDict == [i \in {} |-> <<>>]
Range(n) == 0 .. (n - 1)

RECURSIVE SortedSeq(_)
SortedSeq(S) ==
    IF S = {} THEN <<>>
    ELSE LET lo == CHOOSE x \in S : \A y \in S : x <= y
         IN  <<lo>> \o SortedSeq(S \ {lo})

Elements(seq) == {seq[p] : p \in DOMAIN seq}

RECURSIVE SumOver(_, _)
SumOver(S, f) ==
    IF S = {} THEN 0
    ELSE LET x == CHOOSE y \in S : TRUE
         IN  f[x] + SumOver(S \ {x}, f)

\* b^e, cut off above cap so that no product overflows
RECURSIVE PowCap(_, _, _)
PowCap(b, e, cap) ==
    IF e = 0 THEN 1
    ELSE LET r == PowCap(b, e - 1, cap)
         IN  IF r > cap THEN r ELSE b * r

\* exact rationals <<n, d>> with d > 0; <<0, 0>> is "not a number"
NaNQ == <<0, 0>>
IsNaNQ(q) == q[2] = 0
QEq(a, b) == ~IsNaNQ(a) /\ ~IsNaNQ(b) /\ a[1] * b[2] = b[1] * a[2]
QLess(a, b) == ~IsNaNQ(a) /\ ~IsNaNQ(b) /\ a[1] * b[2] < b[1] * a[2]
QAdd(a, b) ==
    IF IsNaNQ(a) \/ IsNaNQ(b) THEN NaNQ
    ELSE <<a[1] * b[2] + b[1] * a[2], a[2] * b[2]>>

RECURSIVE QSum(_, _)
QSum(S, f) ==
    IF S = {} THEN <<0, 1>>
    ELSE LET x == CHOOSE y \in S : TRUE
         IN  QAdd(f[x], QSum(S \ {x}, f))

\* np.mean of the values f[x], x in S: NaN when S is empty or a value is NaN
QMean(S, f) ==
    IF S = {} THEN NaNQ
    ELSE LET s == QSum(S, f)
         IN  IF IsNaNQ(s) THEN NaNQ ELSE <<s[1], s[2] * Cardinality(S)>>

\* np.max of the values f[x]: NaN as soon as one value is NaN
QMaxIsNaN(S, f) == S = {} \/ \E x \in S : IsNaNQ(f[x])

(***************************************************************************)
(* Numbers of the quality engine.  A rational is <<n, d>> in lowest terms  *)
(* with d > 0.  A weighted sum is a V = <<a, b, c, d>> of rationals that   *)
(* stands for a + b*floor + (c + d*floor)*sqrt(q): floor is the clipping   *)
(* value 1e-6 and q the mean number of annotations per example.            *)
(***************************************************************************)
\* 1e-6 is 1 / FloorDen
FloorDen == 1000000

Abs(x) == IF x < 0 THEN 0 - x ELSE x
\* Operands are bound by \in {...}, so that each is evaluated once.
RECURSIVE Gcd(_, _)
Gcd(a, b) == IF b = 0 THEN a ELSE CHOOSE g \in {Gcd(y, r) : y \in {b}, r \in {a % b}} : TRUE
RatOf(n, d) ==
    CHOOSE r \in {IF n = 0 THEN <<0, 1>>
                  ELSE IF d < 0 THEN <<0 - (n \div g), 0 - (d \div g)>>
                  ELSE <<n \div g, d \div g>> : g \in {Gcd(Abs(n), Abs(d))}} : TRUE
Rat(n, d) == CHOOSE r \in {RatOf(a, b) : a \in {n}, b \in {d}} : TRUE
RatAdd(x, y) ==
    CHOOSE r \in {Rat(a[1] * b[2] + b[1] * a[2], a[2] * b[2]) : a \in {x}, b \in {y}} : TRUE
RatSub(x, y) ==
    CHOOSE r \in {Rat(a[1] * b[2] - b[1] * a[2], a[2] * b[2]) : a \in {x}, b \in {y}} : TRUE
RatMul(x, y) ==
    CHOOSE r \in {Rat(a[1] * b[1], a[2] * b[2]) : a \in {x}, b \in {y}} : TRUE
RatDiv(x, y) ==
    CHOOSE r \in {Rat(a[1] * b[2], a[2] * b[1]) : a \in {x}, b \in {y}} : TRUE
RatSign(x) == CHOOSE r \in {IF a[1] > 0 THEN 1 ELSE IF a[1] < 0 THEN 0 - 1 ELSE 0 : a \in {x}} : TRUE
RatZero == <<0, 1>>
RatOne == <<1, 1>>

RECURSIVE RatSum(_, _)
RatSum(S, f) ==
    IF S = {} THEN RatZero
    ELSE CHOOSE r \in {RatAdd(g[x], RatSum(T \ {x}, g)) :
                           T \in {S}, g \in {f}, x \in {CHOOSE y \in S : TRUE}} : TRUE

VZero == <<RatZero, RatZero, RatZero, RatZero>>
VAdd(u, v) == CHOOSE r \in {[p \in 1 .. 4 |-> RatAdd(a[p], b[p])] : a \in {u}, b \in {v}} : TRUE
VSub(u, v) == CHOOSE r \in {[p \in 1 .. 4 |-> RatSub(a[p], b[p])] : a \in {u}, b \in {v}} : TRUE
VScale(k, v) == CHOOSE r \in {[p \in 1 .. 4 |-> RatMul(a, b[p])] : a \in {k}, b \in {v}} : TRUE
RECURSIVE VSum(_, _)
VSum(S, f) ==
    IF S = {} THEN VZero
    ELSE CHOOSE r \in {VAdd(g[x], VSum(T \ {x}, g)) :
                           T \in {S}, g \in {f}, x \in {CHOOSE y \in S : TRUE}} : TRUE

\* the sign of x0 + x1*floor + x2*floor^2: the first coefficient that is not 0
\* decides, floor being far below the coefficients' resolution
FloorSign(x0, x1, x2) ==
    IF RatSign(x0) # 0 THEN RatSign(x0)
    ELSE IF RatSign(x1) # 0 THEN RatSign(x1)
    ELSE RatSign(x2)
\* the sign of the number v stands for, q being the square of the root
VSignOf(v, q, su, sv) ==
    IF sv = 0 THEN su
    ELSE IF su = 0 \/ su = sv THEN sv
    ELSE \* (a + b f)^2 - q (c + d f)^2, by powers of f
         su * FloorSign(RatSub(RatMul(v[1], v[1]), RatMul(q, RatMul(v[3], v[3]))),
                        RatMul(Rat(2, 1),
                               RatSub(RatMul(v[1], v[2]), RatMul(q, RatMul(v[3], v[4])))),
                        RatSub(RatMul(v[2], v[2]), RatMul(q, RatMul(v[4], v[4]))))
VSign(v, q) ==
    CHOOSE r \in {VSignOf(a, b, FloorSign(a[1], a[2], RatZero), FloorSign(a[3], a[4], RatZero)) :
                      a \in {v}, b \in {q}} : TRUE
VEq(u, v, q) == VSign(VSub(u, v), q) = 0
VLess(u, v, q) == VSign(VSub(u, v), q) < 0

(***************************************************************************)
(* Quotients of weighted sums.  An S is <<x, y>> for x + y*sqrt(q); a P is *)
(* a sequence of S, the coefficients of 1, floor, floor^2, ...; an F is    *)
(* [nan, num, den] for num / den with den positive, or NaN.                *)
(***************************************************************************)
SZero == <<RatZero, RatZero>>
SOne == <<RatOne, RatZero>>
SAdd(x, y) ==
    CHOOSE r \in {<<RatAdd(a[1], b[1]), RatAdd(a[2], b[2])>> : a \in {x}, b \in {y}} : TRUE
SNeg(x) ==
    CHOOSE r \in {<<RatSub(RatZero, a[1]), RatSub(RatZero, a[2])>> : a \in {x}} : TRUE
SMul(x, y, q) ==
    CHOOSE r \in {<<RatAdd(RatMul(a[1], b[1]), RatMul(c, RatMul(a[2], b[2]))),
                   RatAdd(RatMul(a[1], b[2]), RatMul(a[2], b[1]))>> :
                      a \in {x}, b \in {y}, c \in {q}} : TRUE
SSignOf(a, q, su, sv) ==
    IF sv = 0 THEN su
    ELSE IF su = 0 \/ su = sv THEN sv
    ELSE su * RatSign(RatSub(RatMul(a[1], a[1]), RatMul(q, RatMul(a[2], a[2]))))
SSign(x, q) ==
    CHOOSE r \in {SSignOf(a, c, RatSign(a[1]), RatSign(a[2])) : a \in {x}, c \in {q}} : TRUE

Max(m, n) == IF m < n THEN n ELSE m
PCoef(p, k) == IF k \in DOMAIN p THEN p[k] ELSE SZero
PAdd(x, y) ==
    CHOOSE r \in {[k \in 1 .. Max(Len(a), Len(b)) |-> SAdd(PCoef(a, k), PCoef(b, k))] :
                      a \in {x}, b \in {y}} : TRUE
PNeg(x) == CHOOSE r \in {[k \in 1 .. Len(a) |-> SNeg(a[k])] : a \in {x}} : TRUE
\* the coefficient k of the product, summed from position i of a on
RECURSIVE PConv(_, _, _, _, _)
PConv(a, b, k, i, q) ==
    IF i > Len(a) \/ i > k THEN SZero
    ELSE CHOOSE r \in {SAdd(SMul(a[i], PCoef(b, k - i + 1), q), rest) :
                          rest \in {PConv(a, b, k, i + 1, q)}} : TRUE
PMul(x, y, q) ==
    CHOOSE r \in {IF Len(a) = 0 \/ Len(b) = 0 THEN <<>>
                  ELSE [k \in 1 .. (Len(a) + Len(b) - 1) |-> PConv(a, b, k, 1, c)] :
                      a \in {x}, b \in {y}, c \in {q}} : TRUE
\* the sign of a P: that of its first coefficient that is not 0
RECURSIVE PSignFrom(_, _, _)
PSignFrom(p, k, q) ==
    IF k > Len(p) THEN 0
    ELSE CHOOSE r \in {IF s # 0 THEN s ELSE PSignFrom(p, k + 1, q) : s \in {SSign(p[k], q)}} : TRUE
PSign(x, q) == CHOOSE r \in {PSignFrom(a, 1, c) : a \in {x}, c \in {q}} : TRUE
\* the number of coefficients up to the last one that is not 0
RECURSIVE PLength(_, _, _)
PLength(p, k, q) ==
    IF k = 0 THEN 0
    ELSE IF SSign(p[k], q) # 0 THEN k
    ELSE PLength(p, k - 1, q)
\* the number of leading coefficients that are 0
RECURSIVE PLow(_, _, _)
PLow(p, k, q) ==
    IF k > Len(p) THEN Len(p)
    ELSE IF SSign(p[k], q) # 0 THEN k - 1
    ELSE PLow(p, k + 1, q)
PTrim(p, low, q) ==
    CHOOSE r \in {[k \in 1 .. (n - low) |-> p[k + low]] : n \in {PLength(p, Len(p), q)}} : TRUE

NaNF == [nan |-> TRUE, num |-> <<>>, den |-> <<>>]
FIsNaN(f) == f.nan
\* num / den with the common power of floor and the zero coefficients removed
Min(m, n) == IF m < n THEN m ELSE n
FTrim(n, d, low, q) ==
    IF PSign(n, q) = 0 THEN [nan |-> FALSE, num |-> <<SZero>>, den |-> <<SOne>>]
    ELSE [nan |-> FALSE, num |-> PTrim(n, low, q), den |-> PTrim(d, low, q)]
FOf(num, den, q) ==
    CHOOSE r \in {FTrim(n, d, Min(PLow(n, 1, c), PLow(d, 1, c)), c) :
                      n \in {num}, d \in {den}, c \in {q}} : TRUE
FRat(x) == [nan |-> FALSE, num |-> <<<<x, RatZero>>>>, den |-> <<SOne>>]
FZero == FRat(RatZero)
FOne == FRat(RatOne)
FAdd(f, g, q) ==
    CHOOSE r \in {IF a.nan \/ b.nan THEN NaNF
                  ELSE IF a.den = b.den THEN FOf(PAdd(a.num, b.num), a.den, c)
                  ELSE FOf(PAdd(PMul(a.num, b.den, c), PMul(b.num, a.den, c)),
                           PMul(a.den, b.den, c), c) :
                      a \in {f}, b \in {g}, c \in {q}} : TRUE
FNeg(f) == CHOOSE r \in {IF a.nan THEN NaNF ELSE [a EXCEPT !.num = PNeg(a.num)] : a \in {f}} : TRUE
FSub(f, g, q) == FAdd(f, FNeg(g), q)
FMul(f, g, q) ==
    CHOOSE r \in {IF a.nan \/ b.nan THEN NaNF
                  ELSE FOf(PMul(a.num, b.num, c), PMul(a.den, b.den, c), c) :
                      a \in {f}, b \in {g}, c \in {q}} : TRUE
\* a division by 0 gives nan (0 / 0) or inf; neither is told apart here
FDiv(f, g, q) ==
    CHOOSE r \in {IF a.nan \/ b.nan \/ s = 0 THEN NaNF
                  ELSE IF s > 0 THEN FOf(PMul(a.num, b.den, c), PMul(a.den, b.num, c), c)
                  ELSE FOf(PNeg(PMul(a.num, b.den, c)), PNeg(PMul(a.den, b.num, c)), c) :
                      a \in {f}, b \in {g}, c \in {q}, s \in {PSign(g.num, q)}} : TRUE
FSign(f, q) == PSign(f.num, q)
\* comparisons with NaN are false
FLess(f, g, q) == ~f.nan /\ ~g.nan /\ FSign(FSub(f, g, q), q) < 0
FEq(f, g, q) == ~f.nan /\ ~g.nan /\ FSign(FSub(f, g, q), q) = 0
RECURSIVE FSum(_, _, _)
FSum(S, f, q) ==
    IF S = {} THEN FZero
    ELSE CHOOSE r \in {FAdd(g[x], FSum(T \ {x}, g, q), q) :
                           T \in {S}, g \in {f}, x \in {CHOOSE y \in S : TRUE}} : TRUE
\* a weighted sum as a P
VPoly(v) == <<<<v[1], v[3]>>, <<v[2], v[4]>>>>

(***************************************************************************)
(* The label matrix.                                                       *)
(***************************************************************************)
NumExamples(labels) == Cardinality(DOMAIN labels)
NumAnnotators(labels) ==
    IF DOMAIN labels = {} THEN 0 ELSE Cardinality(DOMAIN labels[0])

\* the annotators who labeled the row (s.dropna())
Annotated(row) == {j \in DOMAIN row : row[j] # NaN}
GivenLabels(row) == {row[j] : j \in Annotated(row)}
CountOf(row, c) == Cardinality({j \in DOMAIN row : row[j] = c})

\* labels_multiannotator.mode(axis=1), one row: the most frequent labels,
\* ascending, NaN dropped
RowMode(row) ==
    SortedSeq({c \in GivenLabels(row) :
                 \A d \in GivenLabels(row) : CountOf(row, d) <= CountOf(row, c)})

\* seq[positions], positions a sorted list of 0-based positions
TakeAt(seq, positions) ==
    LET keep == SortedSeq(positions)
    IN  [p \in 1 .. Len(keep) |-> seq[keep[p] + 1]]

(***************************************************************************)
(* Structural validation of the label matrix.                              *)
(***************************************************************************)
HasNaNRow(labels) == \E i \in DOMAIN labels : Annotated(labels[i]) = {}
\* the variant that looks at the first column only
FirstColumnNaN(labels) == \A i \in DOMAIN labels : labels[i][0] = NaN
HasNaNColumn(labels) ==
    \E j \in Range(NumAnnotators(labels)) :
        \A i \in DOMAIN labels : labels[i][j] = NaN
\* the variant that rejects a matrix as soon as one row has a single label
SomeExampleOneLabel(labels) ==
    \E i \in DOMAIN labels : Cardinality(Annotated(labels[i])) = 1
\* line 116
OneLabelPerExample(labels) ==
    \A i \in DOMAIN labels : Cardinality(Annotated(labels[i])) = 1

ValidationError(labels) ==
    IF HasNaNRow(labels) THEN "ValueError: rows with all NaN"
    ELSE IF HasNaNColumn(labels) THEN "ValueError: columns with all NaN"
    ELSE IF NumAnnotators(labels) <= 1 THEN "ValueError: more than one column"
    ELSE IF OneLabelPerExample(labels) THEN "ValueError: one label per example"
    ELSE "none"

(***************************************************************************)
(* get_majority_vote_label.                                                *)
(***************************************************************************)
\* lines 308-321: the modes of every row
ModeStep ==
    /\ pc = "mode"
    /\ LET N == NumExamples(labels_multiannotator)
           mode == [i \in Range(N) |-> RowMode(labels_multiannotator[i])]
           single == {i \in Range(N) : Len(mode[i]) = 1}
       IN  /\ majority_vote_label' =
                  [i \in Range(N) |-> IF i \in single THEN mode[i][1] ELSE NaN]
           /\ nontied_idx' = SortedSeq(single)
           /\ tied_idx' = [i \in Range(N) \ single |-> mode[i]]
    /\ pc' = "tiebreak1"
    /\ UNCHANGED <<entry, labels_multiannotator, pred_probs, tied_copy, warnings, error>>
    /\ UNCHANGED call_vars

MinPredProbs(idx, label_mode) ==
    {p \in Range(Len(label_mode)) :
        \A q \in Range(Len(label_mode)) :
            pred_probs[idx][label_mode[p + 1]] <= pred_probs[idx][label_mode[q + 1]]}
\* np.where(values == np.max(values))[0] for pred_probs[idx, label_mode]
MaxPredProbs(idx, label_mode) ==
    {p \in Range(Len(label_mode)) :
        \A q \in Range(Len(label_mode)) :
            pred_probs[idx][label_mode[q + 1]] <= pred_probs[idx][label_mode[p + 1]]}

\* what one stage leaves: the labels it assigned and the candidates still tied,
\* given for every tied example the positions of label_mode at the maximum
StageLabelsByPosition(winners) ==
    [i \in DOMAIN majority_vote_label |->
        IF i \in DOMAIN tied_idx /\ Cardinality(winners[i]) = 1
        THEN CHOOSE p \in winners[i] : TRUE
        ELSE majority_vote_label[i]]
StageLabels(winners) ==
    [i \in DOMAIN majority_vote_label |->
        IF i \in DOMAIN tied_idx /\ Cardinality(winners[i]) = 1
        THEN TakeAt(tied_idx[i], winners[i])[1]
        ELSE majority_vote_label[i]]
StageTied(winners) ==
    [i \in {k \in DOMAIN tied_idx : Cardinality(winners[k]) # 1} |->
        TakeAt(tied_idx[i], winners[i])]

\* lines 323-333
Tiebreak1 ==
    /\ pc = "tiebreak1"
    /\ IF pred_probs # None /\ DOMAIN tied_idx # {}
       THEN LET winners == [i \in DOMAIN tied_idx |-> MaxPredProbs(i, tied_idx[i])]
            IN  /\ majority_vote_label' = StageLabels(winners)
                /\ tied_idx' = StageTied(winners)
                /\ tied_copy' = tied_idx
       ELSE /\ tied_copy' = EmptyDict
            /\ UNCHANGED <<majority_vote_label, tied_idx>>
    /\ pc' = "tiebreak2"
    /\ UNCHANGED <<entry, labels_multiannotator, pred_probs, nontied_idx, warnings, error>>
    /\ UNCHANGED call_vars

\* the column labels of labels_multiannotator.apply(value_counts, axis=1): the
\* classes that occur in the matrix, ascending
ValueCountsColumns(labels) ==
    SortedSeq(UNION {GivenLabels(labels[i]) : i \in DOMAIN labels})

\* lines 337-339: .sum().to_numpy() keeps one entry per column of the counts
\* frame, so position p holds the total of the p-th class that occurs
ClassFrequencies(labels) ==
    LET cols == ValueCountsColumns(labels)
    IN  [p \in Range(Len(cols)) |->
            SumOver(DOMAIN labels, [i \in DOMAIN labels |-> CountOf(labels[i], cols[p + 1])])]

MaxFrequency(class_frequencies, label_mode) ==
    {p \in Range(Len(label_mode)) :
        \A q \in Range(Len(label_mode)) :
            class_frequencies[label_mode[q + 1]] <= class_frequencies[label_mode[p + 1]]}

\* lines 335-348; class_frequencies[label_mode] raises IndexError when a
\* candidate's class id is not a position of the array
Tiebreak2 ==
    /\ pc = "tiebreak2"
    /\ IF DOMAIN tied_idx # {}
       THEN LET class_frequencies == ClassFrequencies(labels_multiannotator)
                out_of_bounds ==
                    \E i \in DOMAIN tied_idx :
                        \E c \in Elements(tied_idx[i]) : c \notin DOMAIN class_frequencies
            IN  IF out_of_bounds
                THEN /\ pc' = "raised"
                     /\ error' = "IndexError"
                     /\ tied_copy' = tied_idx
                     /\ UNCHANGED <<majority_vote_label, tied_idx>>
                ELSE LET winners ==
                             [i \in DOMAIN tied_idx |->
                                 MaxFrequency(class_frequencies, tied_idx[i])]
                     IN  /\ majority_vote_label' = StageLabels(winners)
                         /\ tied_idx' = StageTied(winners)
                         /\ tied_copy' = tied_idx
                         /\ pc' = "tiebreak3"
                         /\ UNCHANGED error
       ELSE /\ pc' = "tiebreak3"
            /\ tied_copy' = EmptyDict
            /\ UNCHANGED <<majority_vote_label, tied_idx, error>>
    /\ UNCHANGED <<entry, labels_multiannotator, pred_probs, nontied_idx, warnings>>
    /\ UNCHANGED call_vars

AgreementOverAllNontied(labels, nontied, consensus) ==
    [j \in Range(NumAnnotators(labels)) |->
        IF Elements(nontied) = {} THEN NaNQ
        ELSE <<Cardinality({i \in Elements(nontied) : labels[i][j] = consensus[i]}),
               Len(nontied)>>]
\* lines 352-357: every annotator's agreement with the single-mode labels, over
\* the single-mode examples the annotator labeled
AnnotatorAgreementWithConsensus(labels, nontied, consensus) ==
    [j \in Range(NumAnnotators(labels)) |->
        LET mine == {i \in Elements(nontied) : labels[i][j] # NaN}
        IN  IF mine = {} THEN NaNQ
            ELSE <<Cardinality({i \in mine : labels[i][j] = consensus[i]}),
                   Cardinality(mine)>>]

\* lines 359-370: per candidate, the mean agreement of the annotators who gave it
LabelQualityScore(labels, agreement, idx, label_mode) ==
    [p \in Range(Len(label_mode)) |->
        QMean({j \in DOMAIN labels[idx] : labels[idx][j] = label_mode[p + 1]}, agreement)]

\* line 371: np.where(label_quality_score == label_quality_score.max())[0]
MaxScore(score) ==
    IF QMaxIsNaN(DOMAIN score, score) THEN {}
    ELSE {p \in DOMAIN score : \A q \in DOMAIN score : ~QLess(score[p], score[q])}

\* lines 350-376
Tiebreak3 ==
    /\ pc = "tiebreak3"
    /\ IF DOMAIN tied_idx # {}
       THEN LET agreement ==
                    AnnotatorAgreementWithConsensus(
                        labels_multiannotator, nontied_idx, majority_vote_label)
                winners ==
                    [i \in DOMAIN tied_idx |->
                        MaxScore(LabelQualityScore(
                            labels_multiannotator, agreement, i, tied_idx[i]))]
            IN  /\ majority_vote_label' = StageLabels(winners)
                /\ tied_idx' = StageTied(winners)
                /\ tied_copy' = tied_idx
       ELSE /\ tied_copy' = EmptyDict
            /\ UNCHANGED <<majority_vote_label, tied_idx>>
    /\ pc' = "random"
    /\ UNCHANGED <<entry, labels_multiannotator, pred_probs, nontied_idx, warnings, error>>
    /\ UNCHANGED call_vars

\* line 381: list(tied_idx.keys()), the keys in insertion order
TiedExamples(tied) == SortedSeq(DOMAIN tied)

\* line 384, every tied example: np.random.choice(label_mode) draws one of the
\* remaining candidates
RandomChoiceOfPosition(tied) ==
    {choice \in [DOMAIN tied -> Range(MaxClasses)] :
        \A i \in DOMAIN tied : choice[i] \in Range(Len(tied[i]))}
RandomChoice(tied) ==
    {choice \in [DOMAIN tied -> Range(MaxClasses)] :
        \A i \in DOMAIN tied : choice[i] \in Elements(tied[i])}

\* the variant that warns of nothing in particular
PlainWarning(tied) == [category |-> "UserWarning", examples |-> <<>>]
\* lines 379-382: the warning names the keys of tied_idx
RandomSelectionWarning(tied) ==
    [category |-> "breaking ties by random selection", examples |-> TiedExamples(tied)]

\* lines 378-384: the warning names the keys of tied_idx; np.random.choice
\* raises ValueError on an empty array
RandomFallback ==
    /\ pc = "random"
    /\ IF DOMAIN tied_idx # {}
       THEN /\ warnings' = Append(warnings, RandomSelectionWarning(tied_idx))
            /\ IF \E i \in DOMAIN tied_idx : Len(tied_idx[i]) = 0
               THEN /\ pc' = "raised"
                    /\ error' = "ValueError: 'a' cannot be empty"
                    /\ UNCHANGED majority_vote_label
               ELSE /\ \E choice \in RandomChoice(tied_idx) :
                         majority_vote_label' =
                             [i \in DOMAIN majority_vote_label |->
                                 IF i \in DOMAIN tied_idx THEN choice[i]
                                 ELSE majority_vote_label[i]]
                    /\ pc' = "return"
                    /\ UNCHANGED error
       ELSE /\ pc' = "return"
            /\ UNCHANGED <<majority_vote_label, warnings, error>>
    /\ UNCHANGED <<entry, labels_multiannotator, pred_probs, nontied_idx, tied_idx, tied_copy>>
    /\ UNCHANGED call_vars

\* line 386
ReturnMajorityVote ==
    /\ pc = "return"
    /\ entry = "get_majority_vote_label"
    /\ pc' = "returned"
    /\ UNCHANGED <<entry, labels_multiannotator, pred_probs, majority_vote_label,
                   nontied_idx, tied_idx, tied_copy, warnings, error>>
    /\ UNCHANGED call_vars

(***************************************************************************)
(* The consensus quality engine: _get_consensus_stats and its parts.       *)
(* A weight is [kind, value]: kind "value" with its rational, "floor" for  *)
(* the clipping value 1e-6, "nan" for 0/0.  A posterior row is             *)
(* [nan, num, den]: entry c is num[c] / den, or NaN when nan is TRUE.      *)
(***************************************************************************)
\* line 130
NumAnnotations(labels) == [i \in DOMAIN labels |-> Cardinality(Annotated(labels[i]))]

\* np.mean(num_annotations)
MeanAnnotations(counts) ==
    Rat(SumOver(DOMAIN counts, counts), Cardinality(DOMAIN counts))

\* lines 572-576: per example, the fraction of its labels equal to its
\* consensus label
GetAnnotatorAgreementWithConsensus(labels, consensus_label) ==
    [i \in DOMAIN labels |->
        Rat(CountOf(labels[i], consensus_label[i]), Cardinality(Annotated(labels[i])))]

\* lines 604-619: the agreement of annotator j with the others on the examples
\* j labelled, averaged with the weights num_annotations - 1; NaN when the
\* weights sum to 0
GetSingleAnnotatorAgreement(labels, counts, j) ==
    LET rows == {i \in DOMAIN labels : labels[i][j] # NaN}
        per_example == [i \in rows |->
            IF counts[i] = 1 THEN RatZero
            ELSE Rat(CountOf(labels[i], labels[i][j]) - 1, counts[i] - 1)]
        weights == [i \in rows |-> counts[i] - 1]
        total == SumOver(rows, weights)
    IN  IF total = 0 THEN NaNQ
        ELSE RatDiv(RatSum(rows, [i \in rows |-> RatMul(Rat(weights[i], 1), per_example[i])]),
                    Rat(total, 1))

\* lines 621-639: an annotator without overlap gets the mean of the others
GetAnnotatorAgreementWithAnnotators(labels, counts) ==
    LET annotators == DOMAIN labels[0]
        single == [j \in annotators |-> GetSingleAnnotatorAgreement(labels, counts, j)]
        overlap == {j \in annotators : ~IsNaNQ(single[j])}
        avg_annotator_agreement ==
            IF overlap = {} THEN NaNQ
            ELSE RatDiv(RatSum(overlap, single), Rat(Cardinality(overlap), 1))
    IN  [j \in annotators |-> IF j \in overlap THEN single[j] ELSE avg_annotator_agreement]

\* lines 627-634: the note that names the annotators without overlap, printed
\* under "crowdlab" when verbose
NoOverlapNotes(labels, counts, method, notes) ==
    LET mask == {j \in DOMAIN labels[0] :
                    IsNaNQ(GetSingleAnnotatorAgreement(labels, counts, j))}
    IN  IF method = "crowdlab" /\ mask # {} /\ notes
        THEN <<[note |-> "did not annotate any examples that overlap with other annotators",
                annotators |-> SortedSeq(mask)]>>
        ELSE <<>>

NaNWeight == [kind |-> "nan", value |-> RatZero]
FloorWeight == [kind |-> "floor", value |-> RatZero]
\* lines 719-722 and 726: 1 - error / most_likely_class_error, at least 1e-6;
\* a division of 0 by 0 is nan, of a positive number by 0 is inf
AdjustedAgreement(err, most_likely_class_error) ==
    IF most_likely_class_error = RatZero
    THEN IF err = RatZero THEN NaNWeight ELSE FloorWeight
    ELSE LET r == RatSub(RatOne, RatDiv(err, most_likely_class_error))
         IN  IF r[1] <= r[2] \div FloorDen THEN FloorWeight
             ELSE [kind |-> "value", value |-> r]

\* an annotator's weight, and the model's weight (times the root), as numbers
AnnotatorWeightV(w) ==
    IF w.kind = "floor" THEN <<RatZero, RatOne, RatZero, RatZero>>
    ELSE <<w.value, RatZero, RatZero, RatZero>>
ModelWeightV(w) ==
    IF w.kind = "floor" THEN <<RatZero, RatZero, RatZero, RatOne>>
    ELSE <<RatZero, RatZero, w.value, RatZero>>
RatV(r) == <<r, RatZero, RatZero, RatZero>>

\* np.argmax: the first position of the greatest entry
ArgMax(row) ==
    CHOOSE c \in DOMAIN row :
        /\ \A d \in DOMAIN row : row[d] <= row[c]
        /\ \A d \in DOMAIN row : row[d] = row[c] => c <= d

\* line 699: the number of columns of pred_probs
GetNumClasses(probs) == Cardinality(DOMAIN probs[0])

NaNRow(K) == [nan |-> TRUE, num |-> [c \in Range(K) |-> VZero], den |-> VZero]

\* the variant that counts the examples with a single annotation too
ClassErrorOverAll(consensus_label, mask, num_classes) ==
    LET bins == Range(num_classes) \cup {consensus_label[i] : i \in DOMAIN consensus_label}
        bincount ==
            [c \in bins |-> Cardinality({i \in DOMAIN consensus_label : consensus_label[i] = c})]
    IN  Rat(Cardinality({i \in DOMAIN consensus_label : consensus_label[i] # ArgMax(bincount)}),
            Cardinality(DOMAIN consensus_label))
\* lines 704-713: the share of the examples of mask whose consensus label is
\* not np.argmax(np.bincount(consensus_label_subset, minlength=num_classes))
MostLikelyClassError(consensus_label, mask, num_classes) ==
    LET bins == Range(num_classes) \cup {consensus_label[i] : i \in mask}
        bincount == [c \in bins |-> Cardinality({i \in mask : consensus_label[i] = c})]
    IN  Rat(Cardinality({i \in mask : consensus_label[i] # ArgMax(bincount)}),
            Cardinality(mask))

\* lines 698-752
CrowdlabPostPredProbsAndWeights(labels, consensus_label, prior_pred_probs, counts, annotator_agreement) ==
    LET num_classes == GetNumClasses(prior_pred_probs)
        mask == {i \in DOMAIN labels : counts[i] # 1}
        likelihood == RatDiv(RatSum(mask, annotator_agreement), Rat(Cardinality(mask), 1))
        most_likely_class_error == MostLikelyClassError(consensus_label, mask, num_classes)
        annotator_agreement_with_annotators ==
            GetAnnotatorAgreementWithAnnotators(labels, counts)
        adjusted_annotator_agreement ==
            [j \in DOMAIN labels[0] |->
                AdjustedAgreement(RatSub(RatOne, annotator_agreement_with_annotators[j]),
                                  most_likely_class_error)]
        model_error ==
            Rat(Cardinality({i \in mask : ArgMax(prior_pred_probs[i]) # consensus_label[i]}),
                Cardinality(mask))
        model_weight == AdjustedAgreement(model_error, most_likely_class_error)
        other == RatDiv(RatSub(RatOne, likelihood), Rat(num_classes - 1, 1))
        PostRow(i) ==
            LET example == Annotated(labels[i])
            IN  IF model_weight.kind = "nan"
                   \/ \E j \in example : adjusted_annotator_agreement[j].kind = "nan"
                THEN NaNRow(num_classes)
                ELSE [nan |-> FALSE,
                      num |-> [true_label \in Range(num_classes) |->
                          VAdd(VScale(Rat(prior_pred_probs[i][true_label], ProbDen),
                                      ModelWeightV(model_weight)),
                               VSum(example, [j \in example |->
                                   VScale(IF labels[i][j] = true_label THEN likelihood
                                          ELSE other,
                                          AnnotatorWeightV(adjusted_annotator_agreement[j]))]))],
                      den |-> VAdd(ModelWeightV(model_weight),
                                   VSum(example, [j \in example |->
                                       AnnotatorWeightV(adjusted_annotator_agreement[j])]))]
    IN  [post_pred_probs |-> [i \in DOMAIN labels |-> PostRow(i)],
         model_weight |-> model_weight,
         annotator_weight |-> adjusted_annotator_agreement]

\* the variant that divides the counts by the number of annotators
AgreementOverAnnotators(labels, counts) ==
    LET columns == ValueCountsColumns(labels)
    IN  [post_pred_probs |-> [i \in DOMAIN labels |->
             [nan |-> FALSE,
              num |-> [p \in Range(Len(columns)) |->
                          RatV(Rat(CountOf(labels[i], columns[p + 1]), 1))],
              den |-> RatV(Rat(NumAnnotators(labels), 1))]],
         model_weight |-> None,
         annotator_weight |-> None]

\* lines 754-760: one column per class that occurs in the matrix
AgreementPostPredProbsAndWeights(labels, counts) ==
    LET columns == ValueCountsColumns(labels)
    IN  [post_pred_probs |-> [i \in DOMAIN labels |->
             [nan |-> FALSE,
              num |-> [p \in Range(Len(columns)) |->
                          RatV(Rat(CountOf(labels[i], columns[p + 1]), 1))],
              den |-> RatV(Rat(counts[i], 1))]],
         model_weight |-> None,
         annotator_weight |-> None]

\* lines 688-770
GetPostPredProbsAndWeights(labels, consensus_label, prior_pred_probs, counts, annotator_agreement, method) ==
    IF method = "crowdlab"
    THEN CrowdlabPostPredProbsAndWeights(labels, consensus_label, prior_pred_probs,
                                         counts, annotator_agreement)
    ELSE AgreementPostPredProbsAndWeights(labels, counts)

\* cleanlab.rank.get_label_quality_scores: the score of a label against a
\* probability row, a function of the two
GetLabelQualityScores(labels, probs) ==
    [i \in DOMAIN labels |-> [label |-> labels[i], probs |-> probs[i]]]

\* lines 809-830
GetConsensusQualityScore(consensus_label, probs, annotator_agreement, method) ==
    IF method = "crowdlab" THEN GetLabelQualityScores(consensus_label, probs)
    ELSE annotator_agreement

\* lines 762-768
QualityMethodError(method) ==
    IF method \in {"crowdlab", "agreement"} THEN "none"
    ELSE "ValueError: valid quality_method: ['crowdlab', 'agreement']"

\* lines 427-460
GetConsensusStats(labels, probs, counts, consensus_label, method) ==
    LET annotator_agreement == GetAnnotatorAgreementWithConsensus(labels, consensus_label)
        post == GetPostPredProbsAndWeights(labels, consensus_label, probs, counts,
                                           annotator_agreement, method)
    IN  [annotator_agreement |-> annotator_agreement,
         consensus_quality_score |->
             GetConsensusQualityScore(consensus_label, post.post_pred_probs,
                                      annotator_agreement, method),
         post_pred_probs |-> post.post_pred_probs,
         model_weight |-> post.model_weight,
         annotator_weight |-> post.annotator_weight]

(***************************************************************************)
(* Per-annotator scores: _get_annotator_label_quality_score,               *)
(* _get_annotator_quality, _get_annotator_worst_class, _get_annotator_stats.*)
(***************************************************************************)
\* a function with every value computed
Computed(f) == f @@ <<>>

\* the value of a score of get_label_quality_scores, by its default method
\* self_confidence: the probability the row gives to the label, NaN in a NaN
\* row
SelfConfidence(score, q) ==
    IF score.probs.nan THEN NaNF
    ELSE FOf(VPoly(score.probs.num[score.label]), VPoly(score.probs.den), q)

\* a consensus quality score as a number: a score of the scorer under
\* "crowdlab", the annotator agreement under "agreement"
ScoreValue(score, method, q) ==
    IF method = "crowdlab" THEN SelfConfidence(score, q) ELSE FRat(score)

\* lines 842-852: the scores of one annotator's labels, NaN where there is none
GetAnnotatorLabelQualityScore(labels, j, probs) ==
    LET mask == {i \in DOMAIN labels : labels[i][j] # NaN}
        annotator_label_quality_score_subset ==
            GetLabelQualityScores([i \in mask |-> labels[i][j]], [i \in mask |-> probs[i]])
    IN  [i \in DOMAIN labels |->
            IF i \in mask THEN annotator_label_quality_score_subset[i] ELSE NaN]

\* lines 228-233: one column per annotator
DetailedLabelQuality(labels, probs) ==
    [j \in DOMAIN labels[0] |-> GetAnnotatorLabelQualityScore(labels, j, probs)]

\* np.mean of the comparison of an annotator's labels with the consensus over
\* the examples of a set, NaN over none
MeanAgreement(labels, consensus_label, rows, j) ==
    LET mine == {i \in rows : labels[i][j] # NaN}
    IN  IF mine = {} THEN NaNF
        ELSE FRat(Rat(Cardinality({i \in mine : labels[i][j] = consensus_label[i]}),
                      Cardinality(mine)))

\* lines 904-908: the mean score of an annotator's labels
AnnotatorLqs(labels, probs, j, q) ==
    LET mine == {i \in DOMAIN labels : labels[i][j] # NaN}
        scores == GetLabelQualityScores([i \in mine |-> labels[i][j]],
                                        [i \in mine |-> probs[i]])
    IN  FDiv(FSum(mine, [i \in mine |-> SelfConfidence(scores[i], q)], q),
             FRat(Rat(Cardinality(mine), 1)), q)

\* lines 919-922: the share w of the model
ModelShare(counts, model_weight, annotator_weight) ==
    LET q == MeanAnnotations(counts)
        avg_num_annotations_frac == RatDiv(q, Rat(Cardinality(DOMAIN annotator_weight), 1))
        annotator_weight_adjusted ==
            VScale(avg_num_annotations_frac,
                   VSum(DOMAIN annotator_weight,
                        [j \in DOMAIN annotator_weight |->
                            AnnotatorWeightV(annotator_weight[j])]))
    IN  IF model_weight.kind = "nan"
           \/ \E j \in DOMAIN annotator_weight : annotator_weight[j].kind = "nan"
        THEN NaNF
        ELSE FOf(VPoly(ModelWeightV(model_weight)),
                 VPoly(VAdd(ModelWeightV(model_weight), annotator_weight_adjusted)), q)

\* line 923
BlendQuality(w, annotator_lqs, annotator_agreement, q) ==
    FAdd(FMul(w, annotator_lqs, q), FMul(FSub(FOne, w, q), annotator_agreement, q), q)

\* lines 903-943
GetAnnotatorQuality(labels, probs, consensus_label, counts, model_weight, annotator_weight, method) ==
    LET q == MeanAnnotations(counts)
        mask == {i \in DOMAIN labels : counts[i] # 1}
    IN  IF method = "crowdlab"
        THEN LET w == ModelShare(counts, model_weight, annotator_weight)
             IN  [j \in DOMAIN labels[0] |->
                     BlendQuality(w, AnnotatorLqs(labels, probs, j, q),
                                  MeanAgreement(labels, consensus_label, mask, j), q)]
        ELSE [j \in DOMAIN labels[0] |-> MeanAgreement(labels, consensus_label, mask, j)]

\* groupby(...).mean() of the scores of a set of examples: NaN scores are
\* skipped, the mean over none is NaN
MeanScore(rows, score, method, q) ==
    LET defined == {i \in rows : ~FIsNaN(ScoreValue(score[i], method, q))}
    IN  IF defined = {} THEN NaNF
        ELSE FDiv(FSum(defined, [i \in defined |-> ScoreValue(score[i], method, q)], q),
                  FRat(Rat(Cardinality(defined), 1)), q)

\* lines 993-995: the classes whose mean score is the greatest, none when the
\* greatest is NaN
QualityMaxInd(avg_consensus_quality, q) ==
    LET known == {c \in DOMAIN avg_consensus_quality : ~FIsNaN(avg_consensus_quality[c])}
    IN  {c \in known : \A d \in known :
            ~FLess(avg_consensus_quality[c], avg_consensus_quality[d], q)}

\* lines 970-995: the classes left after the two tie-breaks
WorstClassCandidates(labels, j, consensus_label, consensus_quality_score, method, q) ==
    LET mine == {i \in DOMAIN labels : labels[i][j] # NaN}
        classes == {labels[i][j] : i \in mine}
        group == [c \in classes |-> {i \in mine : labels[i][j] = c}]
        class_accuracies ==
            [c \in classes |->
                Rat(Cardinality({i \in group[c] : consensus_label[i] = c}),
                    Cardinality(group[c]))]
        accuracy_min_idx ==
            {c \in classes : \A d \in classes :
                RatSign(RatSub(class_accuracies[d], class_accuracies[c])) >= 0}
        count_max_idx ==
            {c \in accuracy_min_idx : \A d \in accuracy_min_idx :
                Cardinality(group[d]) <= Cardinality(group[c])}
    IN  IF Cardinality(accuracy_min_idx) = 1 THEN accuracy_min_idx
        ELSE IF Cardinality(count_max_idx) = 1 THEN count_max_idx
        ELSE CHOOSE r \in {QualityMaxInd(avg_consensus_quality, q) :
                 avg_consensus_quality \in
                     {Computed([c \in count_max_idx |->
                         MeanScore(group[c], consensus_quality_score, method, q)])}} : TRUE

\* lines 976, 983 and 998: the first of them
GetSingleAnnotatorWorstClass(candidates) ==
    CHOOSE c \in candidates : \A d \in candidates : c <= d

\* line 998 raises IndexError when no class is left
WorstClassError(labels, consensus_label, consensus_quality_score, method, q) ==
    IF \E j \in DOMAIN labels[0] :
           WorstClassCandidates(labels, j, consensus_label, consensus_quality_score,
                                method, q) = {}
    THEN "IndexError"
    ELSE "none"

\* lines 510-546: the four columns, one row per annotator
AnnotatorStatsRows(labels, stats, consensus_label, counts, method) ==
    LET q == MeanAnnotations(counts)
        annotator_quality ==
            GetAnnotatorQuality(labels, stats.post_pred_probs, consensus_label, counts,
                                stats.model_weight, stats.annotator_weight, method)
    IN  [j \in DOMAIN labels[0] |->
            [annotator_quality |-> annotator_quality[j],
             agreement_with_consensus |->
                 MeanAgreement(labels, consensus_label, DOMAIN labels, j),
             worst_class |->
                 GetSingleAnnotatorWorstClass(
                     WorstClassCandidates(labels, j, consensus_label,
                                          stats.consensus_quality_score, method, q)),
             num_examples_labeled |->
                 Cardinality({i \in DOMAIN labels : labels[i][j] # NaN})]]

\* the order of sort_values: -1, 0 or 1 as x is before, equal to or after y;
\* NaN is put last
KeyCompare(x, y, q) ==
    IF FIsNaN(x) THEN (IF FIsNaN(y) THEN 0 ELSE 1)
    ELSE IF FIsNaN(y) THEN 0 - 1
    ELSE FSign(FSub(x, y, q), q)
RowCompare(c, x, y, q) == IF c # 0 THEN c ELSE KeyCompare(x, y, q)
\* row a comes before row b: by annotator_quality, then by
\* agreement_with_consensus, rows with equal keys in their order before
RowBefore(rows, a, b, q) ==
    CHOOSE r \in {c < 0 \/ (c = 0 /\ a < b) :
        c \in {RowCompare(KeyCompare(rows[a].annotator_quality,
                                     rows[b].annotator_quality, q),
                          rows[a].agreement_with_consensus,
                          rows[b].agreement_with_consensus, q)}} : TRUE

\* line 548: the index of the sorted table, every annotator at the position
\* that is the number of rows before its own
SortValues(rows, q) ==
    CHOOSE r \in {[p \in 1 .. Cardinality(DOMAIN rows) |->
                      CHOOSE j \in DOMAIN rows : rank[j] = p - 1] :
        rank \in {Computed([j \in DOMAIN rows |->
                     Cardinality({k \in DOMAIN rows : RowBefore(rows, k, j, q)})])}} : TRUE

\* lines 539-548: the table, its index the annotators in sorted order
SortedStats(rows, q) ==
    CHOOSE r \in {[index |-> SortValues(a, c), rows |-> a] : a \in {rows}, c \in {q}} : TRUE

\* lines 510-548
GetAnnotatorStats(labels, stats, consensus_label, counts, method) ==
    SortedStats(Computed(AnnotatorStatsRows(labels, stats, consensus_label, counts, method)),
                MeanAnnotations(counts))

(***************************************************************************)
(* get_label_quality_multiannotator.                                       *)
(***************************************************************************)
\* lines 124-126: no row holds the same label twice
NoAgreement(labels) ==
    \A i \in DOMAIN labels : \A c \in GivenLabels(labels[i]) : CountOf(labels[i], c) = 1

\* line 135
NeedsMajorityVote(methods) ==
    \E p \in DOMAIN methods : methods[p] \in {"best_quality", "majority_vote"}

\* line 156
NewLabelQuality(counts) == [column \in {"num_annotations"} |-> counts]

\* lines 91-135: validation, the warning, the annotation counts; without a
\* method that needs the majority vote the call goes on to lines 156-158
Validate ==
    /\ pc = "validate"
    /\ IF ValidationError(labels_multiannotator) # "none"
       THEN /\ pc' = "raised"
            /\ error' = ValidationError(labels_multiannotator)
            /\ UNCHANGED <<warnings, num_annotations, label_quality>>
       ELSE /\ warnings' =
                  IF NoAgreement(labels_multiannotator)
                  THEN Append(warnings,
                           [category |-> "Annotators do not agree on any example",
                            examples |-> <<>>])
                  ELSE warnings
            /\ num_annotations' = NumAnnotations(labels_multiannotator)
            /\ IF NeedsMajorityVote(consensus_method)
               THEN /\ pc' = "mode"
                    /\ UNCHANGED label_quality
               ELSE /\ pc' = "loop"
                    /\ label_quality' = NewLabelQuality(NumAnnotations(labels_multiannotator))
            /\ UNCHANGED error
    /\ UNCHANGED <<entry, labels_multiannotator, pred_probs, majority_vote_label,
                   nontied_idx, tied_idx, tied_copy, consensus_method, quality_method,
                   MV_stats, curr, main_method, tables, first_call, console>>

\* lines 136-158: the majority vote has returned; its statistics
MajorityVoteStats ==
    /\ pc = "return"
    /\ entry = "get_label_quality_multiannotator"
    /\ IF QualityMethodError(quality_method) # "none"
       THEN /\ pc' = "raised"
            /\ error' = QualityMethodError(quality_method)
            /\ UNCHANGED <<MV_stats, label_quality, printed>>
       ELSE /\ MV_stats' = GetConsensusStats(labels_multiannotator, pred_probs,
                                             num_annotations, majority_vote_label,
                                             quality_method)
            /\ printed' = printed \o NoOverlapNotes(labels_multiannotator, num_annotations,
                                                    quality_method, verbose)
            /\ label_quality' = NewLabelQuality(num_annotations)
            /\ pc' = "loop"
            /\ UNCHANGED error
    /\ UNCHANGED <<entry, labels_multiannotator, pred_probs, majority_vote_label,
                   nontied_idx, tied_idx, tied_copy, warnings, consensus_method,
                   quality_method, num_annotations, curr, main_method, tables,
                   first_call, verbose>>

\* lines 173-175: the positions of the greatest entry of a row, none in a NaN
\* row; q is the mean number of annotations, whose root the entries hold
MaxPredProbsInd(row, q) ==
    IF row.nan THEN {}
    ELSE {c \in DOMAIN row.num : \A d \in DOMAIN row.num : ~VLess(row.num[c], row.num[d], q)}

\* the variant that takes the first greatest entry, as np.argmax would
FirstMaxPredProbs(label, row, q) ==
    IF MaxPredProbsInd(row, q) = {} THEN label
    ELSE CHOOSE c \in MaxPredProbsInd(row, q) : \A d \in MaxPredProbsInd(row, q) : c <= d

\* lines 176-179: the single greatest entry, else the majority vote label
BestQualityLabel(label, row, q) ==
    IF Cardinality(MaxPredProbsInd(row, q)) = 1
    THEN CHOOSE c \in MaxPredProbsInd(row, q) : TRUE
    ELSE label

\* the variant without the majority vote label: the first of several greatest
\* entries, class 0 in a NaN row
BestQualityOrFirst(labels, post_pred_probs, q) ==
    [i \in DOMAIN labels |-> FirstMaxPredProbs(0, post_pred_probs[i], q)]
\* lines 171-180
BestQualityConsensus(labels, post_pred_probs, q) ==
    [i \in DOMAIN labels |-> BestQualityLabel(labels[i], post_pred_probs[i], q)]

\* the variant that picks the label from the posterior for every method
ConsensusLabelFromPosterior(method, labels, post_pred_probs, q) ==
    BestQualityConsensus(labels, post_pred_probs, q)

\* lines 162-163 and 170-180: the consensus label of a valid method
ConsensusLabel(method, labels, post_pred_probs, q) ==
    IF method = "majority_vote" THEN labels
    ELSE BestQualityConsensus(labels, post_pred_probs, q)

\* the variant that writes the unsuffixed columns in every pass
WithMainColumns(table, main, method, consensus_label, consensus_quality_score, annotator_agreement) ==
    [column \in DOMAIN table \cup {"consensus_label", "consensus_quality_score",
                                   "annotator_agreement"} |->
        IF column = "consensus_label" THEN consensus_label
        ELSE IF column = "consensus_quality_score" THEN consensus_quality_score
        ELSE IF column = "annotator_agreement" THEN annotator_agreement
        ELSE table[column]]
\* lines 206-224 and 250-259: the three columns of a method
WithColumns(table, main, method, consensus_label, consensus_quality_score, annotator_agreement) ==
    LET suffix == IF main THEN "" ELSE "_" \o method
        added == [column \in {"consensus_label" \o suffix,
                              "consensus_quality_score" \o suffix,
                              "annotator_agreement" \o suffix} |->
                     IF column = "consensus_label" \o suffix THEN consensus_label
                     ELSE IF column = "consensus_quality_score" \o suffix
                          THEN consensus_quality_score
                          ELSE annotator_agreement]
    IN  [column \in DOMAIN table \cup DOMAIN added |->
            IF column \in DOMAIN added THEN added[column] ELSE table[column]]

\* the statistics with every entry computed
ComputedStats(stats, method) ==
    [annotator_agreement |-> Computed(stats.annotator_agreement),
     consensus_quality_score |-> Computed(stats.consensus_quality_score),
     post_pred_probs |-> Computed(stats.post_pred_probs),
     model_weight |-> stats.model_weight,
     annotator_weight |->
         IF method = "crowdlab" THEN Computed(stats.annotator_weight)
         ELSE stats.annotator_weight]

\* the variant that keeps the statistics of the majority vote for every method
MajorityVoteStatsReused(method, MV, labels, probs, counts, consensus_label, quality) == MV
\* lines 162-195: the statistics of a method, those of the majority vote as
\* they were computed before the loop, those of best_quality from another run
\* of _get_consensus_stats on its label
MethodStats(method, MV, labels, probs, counts, consensus_label, quality) ==
    IF method = "majority_vote" THEN MV
    ELSE ComputedStats(GetConsensusStats(labels, probs, counts, consensus_label, quality),
                       quality)

\* lines 160-259: one pass of the loop over the requested methods; the first
\* pass also builds the two other tables, where they are asked for
MethodLoop ==
    /\ pc = "loop"
    /\ curr <= Len(consensus_method)
    /\ IF consensus_method[curr] \in {"majority_vote", "best_quality"}
       THEN \E consensus_label \in
                   {Computed(ConsensusLabel(consensus_method[curr], majority_vote_label,
                                            MV_stats.post_pred_probs,
                                            MeanAnnotations(num_annotations)))} :
            \E stats \in
                   {MethodStats(consensus_method[curr], MV_stats, labels_multiannotator,
                                pred_probs, num_annotations, consensus_label,
                                quality_method)} :
            \E worst_class_error \in
                   {IF main_method /\ return_annotator_stats
                    THEN WorstClassError(labels_multiannotator, consensus_label,
                                         stats.consensus_quality_score, quality_method,
                                         MeanAnnotations(num_annotations))
                    ELSE "none"} :
                /\ printed' =
                       IF consensus_method[curr] = "majority_vote" THEN printed
                       ELSE printed \o NoOverlapNotes(labels_multiannotator,
                                                      num_annotations, quality_method,
                                                      verbose)
                /\ label_quality' =
                       WithColumns(label_quality, main_method, consensus_method[curr],
                                   consensus_label, stats.consensus_quality_score,
                                   stats.annotator_agreement)
                /\ detailed_label_quality' =
                       IF main_method /\ return_detailed_quality
                       THEN DetailedLabelQuality(labels_multiannotator,
                                                 stats.post_pred_probs)
                       ELSE detailed_label_quality
                /\ IF worst_class_error # "none"
                   THEN /\ pc' = "raised"
                        /\ error' = worst_class_error
                        /\ UNCHANGED <<annotator_stats, main_method, curr>>
                   ELSE /\ annotator_stats' =
                              IF main_method /\ return_annotator_stats
                              THEN GetAnnotatorStats(labels_multiannotator, stats,
                                                     consensus_label, num_annotations,
                                                     quality_method)
                              ELSE annotator_stats
                        /\ main_method' = FALSE
                        /\ curr' = curr + 1
                        /\ UNCHANGED <<pc, error>>
       ELSE /\ pc' = "raised"
            /\ error' = "ValueError: valid consensus_method: ['majority_vote', 'best_quality']"
            /\ UNCHANGED <<label_quality, main_method, curr, detailed_label_quality,
                           annotator_stats, printed>>
    /\ UNCHANGED <<entry, labels_multiannotator, pred_probs, majority_vote_label,
                   nontied_idx, tied_idx, tied_copy, warnings, consensus_method,
                   quality_method, num_annotations, MV_stats, return_detailed_quality,
                   return_annotator_stats, first_call, verbose>>

\* lines 261-280: the tables are returned
ReturnLabelQuality ==
    /\ pc = "loop"
    /\ curr > Len(consensus_method)
    /\ pc' = "returned"
    /\ UNCHANGED <<entry, labels_multiannotator, pred_probs, majority_vote_label,
                   nontied_idx, tied_idx, tied_copy, warnings, error, consensus_method,
                   quality_method, num_annotations, MV_stats, curr, main_method,
                   label_quality, tables, first_call, console>>

(***************************************************************************)
(* Inputs.                                                                 *)
(***************************************************************************)
Cells(k) == Range(k) \cup {NaN}
LabelMatrices(n, m, k) == [Range(n) -> [Range(m) -> Cells(k)]]
ProbRows(k) == {r \in [Range(k) -> 0 .. ProbDen] : SumOver(Range(k), r) = ProbDen}
ProbMatrices(n, k) == [Range(n) -> ProbRows(k)]

\* the number of inputs of one shape, cut off above MaxInputs
ShapeInputs(n, m, k, with_probs) ==
    LET matrices == PowCap(k + 1, n * m, MaxInputs)
        probs == IF with_probs THEN PowCap(Cardinality(ProbRows(k)), n, MaxInputs) ELSE 1
    IN  IF matrices > MaxInputs \/ probs > MaxInputs THEN MaxInputs + 1
        ELSE matrices * probs

\* the names a caller may pass: the valid ones and one that is not
ConsensusMethods == {"majority_vote", "best_quality", "median_vote"}
QualityMethods == {"crowdlab", "agreement", "confidence"}
MethodLists == UNION {[1 .. l -> ConsensusMethods] : l \in 1 .. MaxMethods}

\* lines 226 and 235 have not run
NoTables ==
    /\ detailed_label_quality = None
    /\ annotator_stats = None

InitLocals ==
    /\ majority_vote_label = <<>>
    /\ nontied_idx = <<>>
    /\ tied_idx = EmptyDict
    /\ tied_copy = EmptyDict
    /\ warnings = <<>>
    /\ error = "none"

\* get_majority_vote_label called on a valid label matrix, with or without
\* predicted probabilities
InitMV ==
    /\ entry = "get_majority_vote_label"
    /\ \E n \in 1 .. MaxExamples, m \in 2 .. MaxAnnotators, k \in 2 .. MaxClasses :
         \E with_probs \in BOOLEAN :
            /\ ShapeInputs(n, m, k, with_probs) <= MaxInputs
            /\ labels_multiannotator \in LabelMatrices(n, m, k)
            /\ ValidationError(labels_multiannotator) = "none"
            /\ IF with_probs THEN pred_probs \in ProbMatrices(n, k)
               ELSE pred_probs = None
    /\ pc = "mode"
    /\ InitLocals
    /\ consensus_method = <<>>
    /\ quality_method = ""
    /\ num_annotations = <<>>
    /\ MV_stats = None
    /\ curr = 1
    /\ main_method = TRUE
    /\ label_quality = EmptyDict
    /\ return_detailed_quality = FALSE
    /\ return_annotator_stats = FALSE
    /\ NoTables
    /\ first_call = None
    /\ verbose = TRUE
    /\ printed = <<>>

NextMV ==
    \/ ModeStep
    \/ Tiebreak1
    \/ Tiebreak2
    \/ Tiebreak3
    \/ RandomFallback
    \/ ReturnMajorityVote

SpecMV == InitMV /\ [][NextMV]_vars

\* get_label_quality_multiannotator called on any label matrix, valid or not,
\* by a caller who asks for the table of the examples alone
Init ==
    /\ entry = "get_label_quality_multiannotator"
    /\ \E n \in 1 .. MaxExamples, m \in 1 .. MaxAnnotators, k \in 2 .. MaxClasses :
            /\ ShapeInputs(n, m, k, TRUE) <= MaxCalls
            /\ labels_multiannotator \in LabelMatrices(n, m, k)
            /\ pred_probs \in ProbMatrices(n, k)
    /\ consensus_method \in MethodLists
    /\ quality_method \in QualityMethods
    /\ pc = "validate"
    /\ InitLocals
    /\ num_annotations = <<>>
    /\ MV_stats = None
    /\ curr = 1
    /\ main_method = TRUE
    /\ label_quality = EmptyDict
    /\ return_detailed_quality = FALSE
    /\ return_annotator_stats = FALSE
    /\ NoTables
    /\ first_call = None
    /\ verbose = TRUE
    /\ printed = <<>>

Next ==
    \/ Validate
    \/ ModeStep
    \/ Tiebreak1
    \/ Tiebreak2
    \/ Tiebreak3
    \/ RandomFallback
    \/ MajorityVoteStats
    \/ MethodLoop
    \/ ReturnLabelQuality

Spec == Init /\ [][Next]_vars

\* get_label_quality_multiannotator called on a label matrix that passes the
\* validation, with valid method names, by a caller who asks for one of the
\* other two tables or for both
InitStats ==
    /\ entry = "get_label_quality_multiannotator"
    /\ \E n \in 1 .. MaxExamples, m \in 2 .. MaxAnnotators, k \in 2 .. MaxClasses :
            /\ ShapeInputs(n, m, k, TRUE) <= MaxStatsCalls
            /\ labels_multiannotator \in LabelMatrices(n, m, k)
            /\ ValidationError(labels_multiannotator) = "none"
            /\ pred_probs \in ProbMatrices(n, k)
    /\ consensus_method \in MethodLists
    /\ \A p \in DOMAIN consensus_method :
           consensus_method[p] \in {"majority_vote", "best_quality"}
    /\ quality_method \in {"crowdlab", "agreement"}
    /\ return_detailed_quality \in BOOLEAN
    /\ return_annotator_stats \in BOOLEAN
    /\ ~(~return_detailed_quality /\ ~return_annotator_stats)
    /\ pc = "validate"
    /\ InitLocals
    /\ num_annotations = <<>>
    /\ MV_stats = None
    /\ curr = 1
    /\ main_method = TRUE
    /\ label_quality = EmptyDict
    /\ NoTables
    /\ first_call = None
    /\ verbose = TRUE
    /\ printed = <<>>

SpecStats == InitStats /\ [][Next]_vars

\* the order of two sequences of numbers by their first difference
LexAtMost(s, t) ==
    \A c \in DOMAIN s : (\A b \in DOMAIN s : b < c => s[b] = t[b]) => s[c] <= t[c]
ColumnOf(labels, j) == [i \in DOMAIN labels |-> labels[i][j]]
\* one matrix of every class of matrices that differ in the order of the
\* examples or of the annotators: neither order enters an annotator's quality
ExamplesInOrder(probs) ==
    \A i \in DOMAIN probs : (i + 1) \in DOMAIN probs => LexAtMost(probs[i], probs[i + 1])
AnnotatorsInOrder(labels) ==
    \A j \in DOMAIN labels[0] :
        (j + 1) \in DOMAIN labels[0] => LexAtMost(ColumnOf(labels, j), ColumnOf(labels, j + 1))

\* get_label_quality_multiannotator called on a label matrix without missing
\* labels, for the majority vote scored by crowdlab and the annotator table
InitDense ==
    /\ entry = "get_label_quality_multiannotator"
    /\ labels_multiannotator \in
           [Range(DenseExamples) -> [Range(DenseAnnotators) -> Range(DenseClasses)]]
    /\ AnnotatorsInOrder(labels_multiannotator)
    /\ pred_probs \in ProbMatrices(DenseExamples, DenseClasses)
    /\ ExamplesInOrder(pred_probs)
    /\ consensus_method = <<"majority_vote">>
    /\ quality_method = "crowdlab"
    /\ return_detailed_quality = FALSE
    /\ return_annotator_stats = TRUE
    /\ pc = "validate"
    /\ InitLocals
    /\ num_annotations = <<>>
    /\ MV_stats = None
    /\ curr = 1
    /\ main_method = TRUE
    /\ label_quality = EmptyDict
    /\ NoTables
    /\ first_call = None
    /\ verbose = TRUE
    /\ printed = <<>>

SpecDense == InitDense /\ [][Next]_vars

\* get_label_quality_multiannotator called for one consensus method scored by
\* crowdlab on a label matrix that passes the validation, by a caller who
\* asks for the table of the examples alone, with or without notes
InitOverlap ==
    /\ entry = "get_label_quality_multiannotator"
    /\ labels_multiannotator \in
           LabelMatrices(OverlapExamples, OverlapAnnotators, OverlapClasses)
    /\ ValidationError(labels_multiannotator) = "none"
    /\ pred_probs \in ProbMatrices(OverlapExamples, OverlapClasses)
    /\ consensus_method \in {<<"majority_vote">>, <<"best_quality">>}
    /\ quality_method = "crowdlab"
    /\ return_detailed_quality = FALSE
    /\ return_annotator_stats = FALSE
    /\ pc = "validate"
    /\ InitLocals
    /\ num_annotations = <<>>
    /\ MV_stats = None
    /\ curr = 1
    /\ main_method = TRUE
    /\ label_quality = EmptyDict
    /\ NoTables
    /\ first_call = None
    /\ verbose \in BOOLEAN
    /\ printed = <<>>

SpecOverlap == InitOverlap /\ [][Next]_vars

\* get_label_quality_multiannotator called with a list of one or two valid
\* consensus methods, in any order, on a label matrix without missing labels,
\* and a classifier that gives every example the same probabilities, by a
\* caller who asks for the table of the examples alone
InitLists ==
    /\ entry = "get_label_quality_multiannotator"
    /\ labels_multiannotator \in
           [Range(ListsExamples) -> [Range(ListsAnnotators) -> Range(ListsClasses)]]
    /\ pred_probs \in ProbMatrices(ListsExamples, ListsClasses)
    /\ pred_probs[0] = pred_probs[1]
    /\ consensus_method \in MethodLists
    /\ \A p \in DOMAIN consensus_method :
           consensus_method[p] \in {"majority_vote", "best_quality"}
    /\ quality_method \in {"crowdlab", "agreement"}
    /\ return_detailed_quality = FALSE
    /\ return_annotator_stats = FALSE
    /\ pc = "validate"
    /\ InitLocals
    /\ num_annotations = <<>>
    /\ MV_stats = None
    /\ curr = 1
    /\ main_method = TRUE
    /\ label_quality = EmptyDict
    /\ NoTables
    /\ first_call = None
    /\ verbose = TRUE
    /\ printed = <<>>

SpecLists == InitLists /\ [][Next]_vars

\* the caller calls get_label_quality_multiannotator once more with the same
\* arguments, keeping what the first call returned; the locals of the new
\* call are fresh
CallAgain ==
    /\ pc = "returned"
    /\ entry = "get_label_quality_multiannotator"
    /\ first_call = None
    /\ first_call' = [label_quality |-> label_quality,
                      detailed_label_quality |-> detailed_label_quality,
                      annotator_stats |-> annotator_stats,
                      warnings |-> warnings]
    /\ pc' = "validate"
    /\ majority_vote_label' = <<>>
    /\ nontied_idx' = <<>>
    /\ tied_idx' = EmptyDict
    /\ tied_copy' = EmptyDict
    /\ warnings' = <<>>
    /\ num_annotations' = <<>>
    /\ MV_stats' = None
    /\ curr' = 1
    /\ main_method' = TRUE
    /\ label_quality' = EmptyDict
    /\ detailed_label_quality' = None
    /\ annotator_stats' = None
    /\ printed' = <<>>
    /\ UNCHANGED <<entry, labels_multiannotator, pred_probs, error, consensus_method,
                   quality_method, return_detailed_quality, return_annotator_stats,
                   verbose>>

\* two calls with the same arguments on a label matrix without missing
\* labels, for the majority vote and the three tables
InitTwice ==
    /\ entry = "get_label_quality_multiannotator"
    /\ labels_multiannotator \in
           [Range(TwiceExamples) -> [Range(TwiceAnnotators) -> Range(TwiceClasses)]]
    /\ pred_probs \in ProbMatrices(TwiceExamples, TwiceClasses)
    /\ consensus_method = <<"majority_vote">>
    /\ quality_method \in {"crowdlab", "agreement"}
    /\ return_detailed_quality = TRUE
    /\ return_annotator_stats = TRUE
    /\ pc = "validate"
    /\ InitLocals
    /\ num_annotations = <<>>
    /\ MV_stats = None
    /\ curr = 1
    /\ main_method = TRUE
    /\ label_quality = EmptyDict
    /\ NoTables
    /\ first_call = None
    /\ verbose = TRUE
    /\ printed = <<>>

NextTwice ==
    \/ Next
    \/ CallAgain

SpecTwice == InitTwice /\ [][NextTwice]_vars

(***************************************************************************)
(* Properties of get_majority_vote_label, checked under SpecMV.            *)
(***************************************************************************)
Examples == DOMAIN labels_multiannotator
Row(i) == labels_multiannotator[i]
\* the stages that have run when the call is at pc
AfterModes == pc \in {"tiebreak1", "tiebreak2", "tiebreak3", "random", "return", "returned", "raised"}
AfterStage1 == pc \in {"tiebreak2", "tiebreak3", "random", "return", "returned", "raised"}
AfterStage2 == pc \in {"tiebreak3", "random", "return", "returned"}
    \/ (pc = "raised" /\ error # "IndexError")

\* the classes given most often to example i
Modes(i) == {c \in GivenLabels(Row(i)) :
               \A d \in GivenLabels(Row(i)) : CountOf(Row(i), d) <= CountOf(Row(i), c)}
\* the classes of S with the highest predicted probability for example i
HighestProb(i, S) == {c \in S : \A d \in S : pred_probs[i][d] <= pred_probs[i][c]}
\* the candidates of example i when stage 1 is over
AfterProbs(i) == IF pred_probs = None THEN Modes(i) ELSE HighestProb(i, Modes(i))
\* how often class c was given in the whole matrix
TotalCount(c) ==
    Cardinality({cell \in Examples \X Range(NumAnnotators(labels_multiannotator)) :
                    labels_multiannotator[cell[1]][cell[2]] = c})
MostFrequent(S) == {c \in S : \A d \in S : TotalCount(d) <= TotalCount(c)}

\* C1: whenever get_majority_vote_label returns, the label of every example is
\* one of the labels some annotator gave to that example.
C1_LabelIsAGivenLabel ==
    pc = "returned" =>
        \A i \in Examples : majority_vote_label[i] \in GivenLabels(Row(i))
\* a call that returned after breaking a tie at random
C1_Witness ==
    /\ pc = "returned"
    /\ DOMAIN tied_idx # {}
    /\ \E i \in Examples : Cardinality(Modes(i)) = 1

\* C2 (as claimed): the call never ends in an exception.  Stated for the
\* matrices in which every class id below the largest one occurs, where
\* stage 2 cannot fail: the ties alone make the call raise.
EveryClassOccurs ==
    LET used == UNION {GivenLabels(Row(i)) : i \in Examples}
    IN  \A c \in used : \A d \in Range(c) : d \in used
C2_TiesNeverRaise == EveryClassOccurs => pc # "raised"

\* C3: with predicted probabilities, a tied example one of whose modes has the
\* strictly highest probability gets that mode in stage 1 and keeps it; any
\* other tied example leaves stage 1 with the modes at the highest probability.
C3_PredProbsTieBreak ==
    (pred_probs # None) =>
        \A i \in Examples :
            Cardinality(Modes(i)) > 1 =>
                /\ AfterStage1 /\ Cardinality(HighestProb(i, Modes(i))) = 1 =>
                       /\ majority_vote_label[i] \in HighestProb(i, Modes(i))
                       /\ i \notin DOMAIN tied_idx
                /\ pc = "tiebreak2" /\ Cardinality(HighestProb(i, Modes(i))) > 1 =>
                       /\ i \in DOMAIN tied_idx
                       /\ tied_idx[i] = SortedSeq(HighestProb(i, Modes(i)))
                       /\ majority_vote_label[i] = NaN
\* labels [0, 0, 1, 1] with the probability of class 1 above that of class 0:
\* the call returns 1
C3_Witness ==
    /\ pc = "returned"
    /\ pred_probs # None
    /\ labels_multiannotator[0] = [j \in Range(4) |-> IF j < 2 THEN 0 ELSE 1]
    /\ pred_probs[0][1] > pred_probs[0][0]
    /\ majority_vote_label[0] = 1

\* C4 (as claimed): an example still tied after stage 1, one of whose
\* candidates has the strictly highest total count in the matrix, has that
\* candidate as its label once stage 2 is over.
C4_GlobalFrequencyTieBreak ==
    (AfterStage2 \/ pc = "raised") =>
        \A i \in Examples :
            (Cardinality(AfterProbs(i)) > 1
                /\ Cardinality(MostFrequent(AfterProbs(i))) = 1)
            => majority_vote_label[i] \in MostFrequent(AfterProbs(i))

\* the reliability of annotator j: the share of the single-mode examples j
\* labeled on which j gave the mode (undefined when j labeled none of them)
Resolved == {i \in Examples : Cardinality(Modes(i)) = 1}
Reliability(j) ==
    LET mine == {i \in Resolved : Row(i)[j] # NaN}
    IN  IF mine = {} THEN NaNQ
        ELSE <<Cardinality({i \in mine : Row(i)[j] \in Modes(i)}), Cardinality(mine)>>
Proposers(i, c) == {j \in DOMAIN Row(i) : Row(i)[j] = c}
\* the sum of the reliabilities of a set of annotators, all defined
RECURSIVE ReliabilitySum(_)
ReliabilitySum(J) ==
    IF J = {} THEN <<0, 1>>
    ELSE LET j == CHOOSE x \in J : TRUE
             rest == ReliabilitySum(J \ {j})
         IN  <<Reliability(j)[1] * rest[2] + rest[1] * Reliability(j)[2],
               Reliability(j)[2] * rest[2]>>
ScoreDefined(i, c) == \A j \in Proposers(i, c) : ~IsNaNQ(Reliability(j))
\* mean reliability of c's proposers is at least that of d's
ScoreAtLeast(i, c, d) ==
    LET sc == ReliabilitySum(Proposers(i, c))
        sd == ReliabilitySum(Proposers(i, d))
    IN  sc[1] * sd[2] * Cardinality(Proposers(i, d))
            >= sd[1] * sc[2] * Cardinality(Proposers(i, c))
BestScore(i, S) == {c \in S : \A d \in S : ScoreAtLeast(i, c, d)}

C6_RandomFallback ==
    /\ [][pc = "random" =>
            \A i \in Examples :
                majority_vote_label'[i] # majority_vote_label[i] =>
                    /\ i \in DOMAIN tied_idx
                    /\ majority_vote_label'[i] \in Elements(tied_idx[i])]_vars
    /\ [](pc = "returned" =>
            \A i \in Examples :
                IF i \in DOMAIN tied_idx
                THEN majority_vote_label[i] \in Elements(tied_idx[i])
                ELSE majority_vote_label[i] # NaN)
    /\ [](IF pc \in {"return", "returned"}
                \/ (pc = "raised" /\ error # "IndexError")
          THEN IF DOMAIN tied_idx = {} THEN warnings = <<>>
               ELSE /\ Len(warnings) = 1
                    /\ Elements(warnings[1].examples) = DOMAIN tied_idx
                    /\ Len(warnings[1].examples) = Cardinality(DOMAIN tied_idx)
          ELSE warnings = <<>>)
\* a call that returned after drawing the labels of two examples
C6_Witness ==
    /\ pc = "returned"
    /\ Cardinality(DOMAIN tied_idx) = 2
    /\ Len(warnings) = 1
    /\ \E i \in Examples : i \notin DOMAIN tied_idx

\* one step of a stage of the cascade
StageStep == pc \in {"tiebreak1", "tiebreak2", "tiebreak3"}
\* the work-list after the step holds examples of the work-list before it,
\* each with candidates it had before
CandidatesNarrowed ==
    \A i \in DOMAIN tied_idx' :
        /\ i \in DOMAIN tied_idx
        /\ Elements(tied_idx'[i]) \subseteq Elements(tied_idx[i])
CandidatesLeft == \A i \in DOMAIN tied_idx' : Elements(tied_idx'[i]) # {}
\* an example of the work-list stays on it without a label, or leaves it with
\* one of its candidates as label
HandledOnce ==
    \A i \in DOMAIN tied_idx :
        IF i \in DOMAIN tied_idx' THEN majority_vote_label'[i] = NaN
        ELSE majority_vote_label'[i] \in Elements(tied_idx[i])
\* an example with a label keeps it and is not on the work-list
AssignedStay ==
    \A i \in DOMAIN majority_vote_label :
        majority_vote_label[i] # NaN
            => /\ majority_vote_label'[i] = majority_vote_label[i]
               /\ i \notin DOMAIN tied_idx'

\* C18: in every stage of the cascade each example still tied after the stage
\* was tied before it and its candidates are a non-empty subset of those it
\* had before; the stage handles exactly the examples tied at its start, each
\* either staying tied or getting one of its candidates; and an example that
\* has a label keeps it and does not come back on the work-list.
C18_CascadeNarrows ==
    [][StageStep => (CandidatesNarrowed /\ CandidatesLeft /\ HandledOnce /\ AssignedStay)]_vars

\* all of it but that candidates are left
CascadeNarrowsOrEmpties ==
    [][StageStep => (CandidatesNarrowed /\ HandledOnce /\ AssignedStay)]_vars
\* candidates are left by the first two stages
CandidatesLeftBeforeStage3 ==
    [][(StageStep /\ pc # "tiebreak3") => CandidatesLeft]_vars

(***************************************************************************)
(* Properties of get_label_quality_multiannotator, checked under Spec.     *)
(***************************************************************************)
Annotators == DOMAIN labels_multiannotator[0]
Called == entry = "get_label_quality_multiannotator"
Validated == Called /\ pc # "validate"

\* the four defects of a label matrix
RowEntirelyMissing == \E i \in Examples : \A j \in Annotators : Row(i)[j] = NaN
ColumnEntirelyMissing == \E j \in Annotators : \A i \in Examples : Row(i)[j] = NaN
AtMostOneAnnotator == Cardinality(Annotators) <= 1
LabelsOf(i) == {j \in Annotators : Row(i)[j] # NaN}
EveryRowHasOneLabel == \A i \in Examples : Cardinality(LabelsOf(i)) = 1
StructuralErrors ==
    {"ValueError: rows with all NaN", "ValueError: columns with all NaN",
     "ValueError: more than one column", "ValueError: one label per example"}

\* C9: the call fails with a structural error if and only if the label matrix
\* has a row that is entirely missing, a column that is entirely missing, at
\* most one annotator column, or exactly one label in every row; a matrix with
\* none of the four passes validation, and no structural error comes later.
C9_StructuralErrorIffDefect ==
    /\ Validated =>
          ((pc = "raised" /\ error \in StructuralErrors)
              <=> (RowEntirelyMissing \/ ColumnEntirelyMissing
                      \/ AtMostOneAnnotator \/ EveryRowHasOneLabel))
    /\ (Called /\ pc = "validate") => error = "none"

\* a matrix in which only some rows have a single label has passed validation
C9_Witness ==
    /\ Called
    /\ pc = "returned"
    /\ \E i \in Examples : Cardinality(LabelsOf(i)) = 1
    /\ \E i \in Examples : Cardinality(LabelsOf(i)) > 1
    /\ \E j \in Annotators : Cardinality({i \in Examples : Row(i)[j] # NaN}) = 1

ValidConsensusMethods == {"majority_vote", "best_quality"}
ValidQualityMethods == {"crowdlab", "agreement"}
UnknownConsensusMethod ==
    \E p \in DOMAIN consensus_method : consensus_method[p] \notin ValidConsensusMethods
NoDefect ==
    ~(RowEntirelyMissing \/ ColumnEntirelyMissing \/ AtMostOneAnnotator
         \/ EveryRowHasOneLabel)

\* C10: on a label matrix without defect and with a valid quality method, a
\* list of consensus methods that holds an unknown name, at any position,
\* makes the call fail with the error that names the valid consensus methods,
\* and no table is returned.
C10_UnknownMethodFails ==
    (Called /\ NoDefect /\ quality_method \in ValidQualityMethods /\ UnknownConsensusMethod)
        => /\ pc # "returned"
           /\ pc = "raised" =>
                  error = "ValueError: valid consensus_method: ['majority_vote', 'best_quality']"

\* C7: when the first requested method is "majority_vote", the consensus_label
\* column of the main table is, example by example, the vector that
\* get_majority_vote_label returned in this call.
C7_MajorityVoteColumn ==
    (Called /\ "consensus_label" \in DOMAIN label_quality
            /\ consensus_method[1] = "majority_vote")
        => \A i \in Examples :
              label_quality["consensus_label"][i] = majority_vote_label[i]

\* the positions at which the posterior row of the majority vote labels is greatest
PosteriorMaxima(i) ==
    LET row == MV_stats.post_pred_probs[i]
        q == MeanAnnotations(num_annotations)
    IN  IF row.nan THEN {}
        ELSE {c \in DOMAIN row.num :
                 \A d \in DOMAIN row.num \ {c} :
                     VLess(row.num[d], row.num[c], q) \/ VEq(row.num[d], row.num[c], q)}

\* the table was returned with majority_vote first, after the cascade broke
\* a tie, and the posterior would have picked another label for some example
C7_Witness ==
    /\ Called
    /\ pc = "returned"
    /\ consensus_method[1] = "majority_vote"
    /\ Len(nontied_idx) < Cardinality(Examples)
    /\ label_quality["consensus_label"] = majority_vote_label
    /\ \E i \in Examples :
          /\ Cardinality(PosteriorMaxima(i)) = 1
          /\ majority_vote_label[i] \notin PosteriorMaxima(i)

\* the column of the table that holds the labels of best_quality, if any
BestQualityColumns ==
    {column \in DOMAIN label_quality :
        \/ column = "consensus_label" /\ consensus_method[1] = "best_quality"
        \/ column = "consensus_label_best_quality"}

AllMethodsValid ==
    \A p \in DOMAIN consensus_method : consensus_method[p] \in ValidConsensusMethods

\* C11: on a label matrix without defect and with a list of valid consensus
\* methods, a quality method other than "crowdlab" and "agreement" makes the
\* call fail with the error that names the valid quality methods; no
\* statistics and no table are produced.
C11_UnknownQualityMethodFails ==
    (Called /\ NoDefect /\ AllMethodsValid /\ quality_method \notin ValidQualityMethods)
        => /\ pc # "returned"
           /\ MV_stats = None
           /\ DOMAIN label_quality = {}
           /\ pc = "raised" =>
                  error = "ValueError: valid quality_method: ['crowdlab', 'agreement']"

\* the sum of the entries of a posterior row equals 1
RowSumsToOne(row) ==
    /\ ~row.nan
    /\ VEq(VSum(DOMAIN row.num, row.num), row.den, MeanAnnotations(num_annotations))
    /\ VSign(row.den, MeanAnnotations(num_annotations)) > 0

\* C12: under quality method "agreement" every row of the posterior matrix
\* sums to 1.
C12_AgreementRowsSumToOne ==
    (Called /\ quality_method = "agreement" /\ MV_stats # None)
        => \A i \in Examples : RowSumsToOne(MV_stats.post_pred_probs[i])

\* an agreement posterior was returned for a matrix with a missing cell and
\* a row of two different labels
C12_Witness ==
    /\ Called
    /\ pc = "returned"
    /\ quality_method = "agreement"
    /\ \E i \in Examples : Cardinality(LabelsOf(i)) < Cardinality(Annotators)
    /\ \E i \in Examples : Cardinality(GivenLabels(Row(i))) = 2

\* an entry of a posterior row lies in [0, 1]
EntryInUnitInterval(row, c) ==
    LET q == MeanAnnotations(num_annotations)
    IN  /\ ~row.nan
        /\ VSign(row.num[c], q) >= 0
        /\ ~VLess(row.den, row.num[c], q)

\* C13: under quality method "crowdlab" the posterior has a row of K entries
\* for every example, each entry lies in [0, 1] and the entries of a row sum
\* to 1 (the rows of pred_probs all sum to 1 here).
C13_CrowdlabNormalized ==
    (Called /\ quality_method = "crowdlab" /\ MV_stats # None)
        => \A i \in Examples :
              LET row == MV_stats.post_pred_probs[i]
              IN  /\ DOMAIN row.num = Range(GetNumClasses(pred_probs))
                  /\ RowSumsToOne(row)
                  /\ \A c \in DOMAIN row.num : EntryInUnitInterval(row, c)

\* the state of a call in which only the validation has run
NothingComputed ==
    /\ majority_vote_label = <<>>
    /\ nontied_idx = <<>>
    /\ tied_idx = EmptyDict
    /\ tied_copy = EmptyDict
    /\ num_annotations = <<>>
    /\ MV_stats = None
    /\ label_quality = EmptyDict
    /\ curr = 1

\* C19: on a label matrix with a structural defect the call raises the
\* structural error before the majority vote runs, before any statistic is
\* computed and before a consensus or quality method name is examined: the
\* call is either not yet validated or has raised a structural error,
\* whatever the method names are, and no warning has been emitted.
C19_ValidationFirst ==
    (Called /\ ~NoDefect)
        => /\ pc \in {"validate", "raised"}
           /\ pc = "raised" => error \in StructuralErrors
           /\ pc = "validate" => error = "none"
           /\ warnings = <<>>
           /\ NothingComputed

\* a matrix with a missing column and a tied row, called with an unknown
\* consensus method and an unknown quality method, has raised
C19_Witness ==
    /\ Called
    /\ pc = "raised"
    /\ ColumnEntirelyMissing
    /\ ~RowEntirelyMissing
    /\ UnknownConsensusMethod
    /\ quality_method \notin ValidQualityMethods
    /\ \E i \in Examples : Cardinality(GivenLabels(Row(i))) > 1

\* C20: under the quality method "agreement" the posterior has one column
\* for every class id below the number of classes K of pred_probs, used by
\* an annotator or not, and its entry for example i and class c is the
\* number of annotators who gave i the label c divided by the number of
\* annotations of i.
C20_AgreementPosteriorByClass ==
    (Called /\ quality_method = "agreement" /\ MV_stats # None)
        => \A i \in Examples :
              LET row == MV_stats.post_pred_probs[i]
                  q == MeanAnnotations(num_annotations)
              IN  /\ ~row.nan
                  /\ DOMAIN row.num = Range(GetNumClasses(pred_probs))
                  /\ \A c \in DOMAIN row.num :
                        VEq(VScale(Rat(num_annotations[i], 1), row.num[c]),
                            VScale(Rat(CountOf(Row(i), c), 1), row.den), q)

\* where every class id is used the posterior is the one described
AllClassesUsed ==
    UNION {GivenLabels(Row(i)) : i \in Examples} = Range(GetNumClasses(pred_probs))
AgreementByClassWhereAllUsed ==
    (Called /\ AllClassesUsed) => C20_AgreementPosteriorByClass

(***************************************************************************)
(* Properties of the other two tables, checked under SpecStats.            *)
(***************************************************************************)
StatsBuilt == Called /\ annotator_stats # None
\* the row at a position of the annotator table
StatsRow(p) == annotator_stats.rows[annotator_stats.index[p]]
\* the pair of the first row is at most the pair of the second, compared as
\* numbers: a comparison with NaN is false
PairAtMost(r1, r2) ==
    LET q == MeanAnnotations(num_annotations)
    IN  \/ FLess(r1.annotator_quality, r2.annotator_quality, q)
        \/ /\ FEq(r1.annotator_quality, r2.annotator_quality, q)
           /\ ~FIsNaN(r1.agreement_with_consensus)
           /\ ~FIsNaN(r2.agreement_with_consensus)
           /\ ~FLess(r2.agreement_with_consensus, r1.agreement_with_consensus, q)

\* C14: the rows of the annotator table are in non-decreasing order of the
\* pair (annotator_quality, agreement_with_consensus), compared
\* lexicographically, for every label matrix that passes validation and
\* either quality method.
C14_StatsSorted ==
    StatsBuilt
        => \A p \in 1 .. (Len(annotator_stats.index) - 1) :
               PairAtMost(StatsRow(p), StatsRow(p + 1))

\* the rows whose quality is a number are in that order, and the rows whose
\* quality is NaN come after them
SortedWhereDefined ==
    StatsBuilt
        => \A p \in 1 .. (Len(annotator_stats.index) - 1) :
               IF FIsNaN(StatsRow(p + 1).annotator_quality) THEN TRUE
               ELSE PairAtMost(StatsRow(p), StatsRow(p + 1))
\* under "agreement" the rows are in that order
SortedUnderAgreement == quality_method = "agreement" => C14_StatsSorted
\* the sort changes the order of the annotators
SortReorders ==
    /\ StatsBuilt
    /\ \E p \in 1 .. (Len(annotator_stats.index) - 1) :
           /\ annotator_stats.index[p] > annotator_stats.index[p + 1]
           /\ ~FIsNaN(StatsRow(p + 1).annotator_quality)

\* the label matrices that differ from the one of the call in the classes
\* annotator j gave only, and in which every example has a single mode
OtherLabels(j) ==
    {other \in [Examples -> [Annotators -> Cells(GetNumClasses(pred_probs))]] :
        /\ \A i \in Examples : \A a \in Annotators :
               IF a = j THEN (other[i][a] = NaN) <=> (Row(i)[a] = NaN)
               ELSE other[i][a] = Row(i)[a]
        /\ \A i \in Examples : Len(RowMode(other[i])) = 1
        /\ ValidationError(other) = "none"}
\* the consensus labels of such a matrix, and the annotator's quality for it
SingleModes(labels) == [i \in DOMAIN labels |-> RowMode(labels[i])[1]]
CrowdlabQuality(labels, j) ==
    LET stats == ComputedStats(GetConsensusStats(labels, pred_probs, NumAnnotations(labels),
                                                 SingleModes(labels), "crowdlab"), "crowdlab")
    IN  GetAnnotatorQuality(labels, stats.post_pred_probs, SingleModes(labels),
                            NumAnnotations(labels), stats.model_weight,
                            stats.annotator_weight, "crowdlab")[j]
AgreesOn(labels, consensus_label, j) ==
    Cardinality({i \in DOMAIN labels : labels[i][j] = consensus_label[i]})
\* a call whose consensus is the majority vote, every example with a single
\* mode, scored by crowdlab
CrowdlabCall ==
    /\ StatsBuilt
    /\ pc = "returned"
    /\ quality_method = "crowdlab"
    /\ consensus_method[1] = "majority_vote"
    /\ Len(nontied_idx) = Cardinality(Examples)

\* C15: under "crowdlab", of two label matrices that differ only in the
\* classes one annotator gave, the one in which that annotator agrees with
\* the consensus on more examples gives the annotator a quality at least as
\* high.
C15_QualityMonotoneInAgreement ==
    CrowdlabCall
        => \A j \in Annotators : \A other \in OtherLabels(j) :
               AgreesOn(other, SingleModes(other), j)
                       > AgreesOn(labels_multiannotator, majority_vote_label, j)
                   => /\ ~FIsNaN(CrowdlabQuality(other, j))
                      /\ ~FIsNaN(annotator_stats.rows[j].annotator_quality)
                      /\ ~FLess(CrowdlabQuality(other, j),
                                annotator_stats.rows[j].annotator_quality,
                                MeanAnnotations(num_annotations))

\* the same where both qualities are numbers
MonotoneWhereDefined ==
    CrowdlabCall
        => \A j \in Annotators : \A other \in OtherLabels(j) :
               (/\ AgreesOn(other, SingleModes(other), j)
                       > AgreesOn(labels_multiannotator, majority_vote_label, j)
                /\ ~FIsNaN(CrowdlabQuality(other, j))
                /\ ~FIsNaN(annotator_stats.rows[j].annotator_quality))
                   => ~FLess(CrowdlabQuality(other, j),
                             annotator_stats.rows[j].annotator_quality,
                             MeanAnnotations(num_annotations))

\* the consensus label and the statistics of the first requested method
FirstLabel ==
    Computed(ConsensusLabel(consensus_method[1], majority_vote_label,
                            MV_stats.post_pred_probs, MeanAnnotations(num_annotations)))
FirstStats ==
    IF consensus_method[1] = "majority_vote" THEN MV_stats
    ELSE ComputedStats(GetConsensusStats(labels_multiannotator, pred_probs, num_annotations,
                                         FirstLabel, quality_method), quality_method)
\* once the first pass is over, the main columns and the other two tables
\* hold what the first method gives
MainFromFirst ==
    (Called /\ ~main_method)
        => /\ label_quality.consensus_label = FirstLabel
           /\ label_quality.consensus_quality_score = FirstStats.consensus_quality_score
           /\ label_quality.annotator_agreement = FirstStats.annotator_agreement
           /\ label_quality.num_annotations = num_annotations
           /\ detailed_label_quality =
                  IF return_detailed_quality
                  THEN DetailedLabelQuality(labels_multiannotator, FirstStats.post_pred_probs)
                  ELSE None
           /\ annotator_stats =
                  IF return_annotator_stats
                  THEN GetAnnotatorStats(labels_multiannotator, FirstStats, FirstLabel,
                                         num_annotations, quality_method)
                  ELSE None
\* a pass of the loop for a later method
LaterPass == pc = "loop" /\ ~main_method /\ curr' = curr + 1
\* the columns named after a method
SuffixedColumns(method) ==
    {"consensus_label_" \o method, "consensus_quality_score_" \o method,
     "annotator_agreement_" \o method}
OnlySuffixedAdded ==
    /\ DOMAIN label_quality' = DOMAIN label_quality \cup SuffixedColumns(consensus_method[curr])
    /\ \A column \in DOMAIN label_quality \ SuffixedColumns(consensus_method[curr]) :
           label_quality'[column] = label_quality[column]
    /\ UNCHANGED <<detailed_label_quality, annotator_stats>>

\* C16: the first method of the list fills the unsuffixed columns
\* consensus_label, consensus_quality_score and annotator_agreement, and the
\* annotator table and the detailed table are built from its label and
\* statistics alone; the pass of a later method adds only the columns with
\* that method's name as suffix and leaves the main columns and the two
\* tables unchanged.
C16_FirstMethodIsMain ==
    []MainFromFirst /\ [][LaterPass => OnlySuffixedAdded]_vars

\* a returned call with two methods and both tables, the second method's
\* label differing from the first's
C16_Witness ==
    /\ Called
    /\ pc = "returned"
    /\ consensus_method = <<"majority_vote", "best_quality">>
    /\ detailed_label_quality # None
    /\ annotator_stats # None
    /\ label_quality.consensus_label_best_quality # label_quality.consensus_label

(***************************************************************************)
(* Properties of two calls with the same arguments, checked under          *)
(* SpecTwice.                                                              *)
(***************************************************************************)
\* no example was left to the random choice of lines 378-384
NoRandomChoice(warned) ==
    \A p \in DOMAIN warned : warned[p].category # "breaking ties by random selection"
SecondCallReturned == Called /\ pc = "returned" /\ first_call # None

SameTablesAlways ==
    SecondCallReturned
        => /\ label_quality = first_call.label_quality
           /\ detailed_label_quality = first_call.detailed_label_quality
           /\ annotator_stats = first_call.annotator_stats

MultiplyAnnotated == {i \in Examples : Cardinality(LabelsOf(i)) > 1}
\* the classes that are the consensus label of the most of them
MostFrequentClasses(consensus) ==
    LET count(c) == Cardinality({i \in MultiplyAnnotated : consensus[i] = c})
        classes == {consensus[i] : i \in MultiplyAnnotated}
    IN  {c \in classes : \A d \in classes : count(d) <= count(c)}
\* the share of them whose consensus label is not class c
ShareNot(consensus, c) ==
    Rat(Cardinality({i \in MultiplyAnnotated : consensus[i] # c}),
        Cardinality(MultiplyAnnotated))
CrowdlabStatsBuilt == Called /\ quality_method = "crowdlab" /\ MV_stats # None
\* the consensus labels the engine is run on in a call
EngineLabels ==
    {majority_vote_label}
        \cup {BestQualityConsensus(majority_vote_label, MV_stats.post_pred_probs,
                                   MeanAnnotations(num_annotations)) :
                 p \in {p \in DOMAIN consensus_method : consensus_method[p] = "best_quality"}}

FloorError ==
    MostLikelyClassError(majority_vote_label, {i \in Examples : num_annotations[i] # 1},
                         GetNumClasses(pred_probs))
PairwiseAgreement(j) ==
    GetAnnotatorAgreementWithAnnotators(labels_multiannotator, num_annotations)[j]
Disagreement(j) == RatSub(RatOne, PairwiseAgreement(j))
AtMostFloor(r) == r[1] * FloorDen <= r[2]
\* a weight is a number, at least 1e-6 and at most 1
WeightInRange(w) ==
    /\ w.kind \in {"floor", "value"}
    /\ w.kind = "value" =>
           /\ ~AtMostFloor(w.value)
           /\ RatSign(RatSub(RatOne, w.value)) >= 0
\* the weight of annotator j is 1 - (1 - agreement) / E, not below 1e-6
WeightAsClipped(j) ==
    LET w == MV_stats.annotator_weight[j]
    IN  /\ FloorError # RatZero =>
               LET r == RatSub(RatOne, RatDiv(Disagreement(j), FloorError))
               IN  IF AtMostFloor(r) THEN w.kind = "floor"
                   ELSE w.kind = "value" /\ w.value = r
        /\ RatSign(RatSub(Disagreement(j), FloorError)) >= 0 => w.kind = "floor"

\* C21: under "crowdlab" the weight of every annotator is a number, equal to
\* 1 - (1 - agreement) / E and not below 1e-6, hence between 1e-6 and 1; it is
\* 1e-6 for an annotator whose disagreement is at least the floor error E;
\* and the weight of the model is a number above 0; whatever the floor error.
C21_WeightsDefined ==
    CrowdlabStatsBuilt
        => /\ \A j \in Annotators :
                  /\ WeightInRange(MV_stats.annotator_weight[j])
                  /\ WeightAsClipped(j)
           /\ MV_stats.model_weight.kind \in {"floor", "value"}
           /\ MV_stats.model_weight.kind = "value" =>
                  RatSign(MV_stats.model_weight.value) > 0

\* the same where the floor error is not 0
WeightsDefinedAboveZeroFloor ==
    (CrowdlabStatsBuilt /\ FloorError # RatZero) => C21_WeightsDefined
\* with a floor error of 0 the one weight that is not a number is that of an
\* annotator, or of the model, without error
NaNOnlyWithoutError ==
    (CrowdlabStatsBuilt /\ FloorError = RatZero)
        => /\ \A j \in Annotators :
                  IF Disagreement(j) = RatZero
                  THEN MV_stats.annotator_weight[j].kind = "nan"
                  ELSE MV_stats.annotator_weight[j].kind = "floor"
           /\ MV_stats.model_weight.kind \in {"nan", "floor"}
\* a weight strictly between 1e-6 and 1 is computed
SomeWeightBetween ==
    /\ CrowdlabStatsBuilt
    /\ \E j \in Annotators :
           /\ MV_stats.annotator_weight[j].kind = "value"
           /\ MV_stats.annotator_weight[j].value # RatOne

(***************************************************************************)
(* Properties of the worst class and of the best_quality pass, checked     *)
(* under SpecStats.                                                        *)
(***************************************************************************)
\* the examples to which annotator j gave class c, and the classes j gave
GroupOf(j, c) == {i \in Examples : Row(i)[j] = c}
ClassesGiven(j) == {Row(i)[j] : i \in {i \in Examples : Row(i)[j] # NaN}}
\* the share of a group whose consensus label is the class
GroupAccuracy(j, c) ==
    Rat(Cardinality({i \in GroupOf(j, c) : FirstLabel[i] = c}), Cardinality(GroupOf(j, c)))
\* the mean consensus quality score of a group
GroupMeanScore(j, c) ==
    LET q == MeanAnnotations(num_annotations)
    IN  FDiv(FSum(GroupOf(j, c),
                  [i \in GroupOf(j, c) |->
                      ScoreValue(FirstStats.consensus_quality_score[i], quality_method, q)],
                  q),
             FRat(Rat(Cardinality(GroupOf(j, c)), 1)), q)
LeastAccurate(j) ==
    {c \in ClassesGiven(j) : \A d \in ClassesGiven(j) :
        RatSign(RatSub(GroupAccuracy(j, d), GroupAccuracy(j, c))) >= 0}
LargestGroups(j) ==
    {c \in LeastAccurate(j) : \A d \in LeastAccurate(j) :
        Cardinality(GroupOf(j, d)) <= Cardinality(GroupOf(j, c))}
HighestMeanScore(j) ==
    {c \in LargestGroups(j) : \A d \in LargestGroups(j) :
        ~FLess(GroupMeanScore(j, c), GroupMeanScore(j, d), MeanAnnotations(num_annotations))}
\* the class the three criteria and the order of the class ids leave
ClaimedWorstClass(j) ==
    CHOOSE c \in HighestMeanScore(j) : \A d \in HighestMeanScore(j) : c <= d
\* the call failed while it looked for an annotator's worst class
WorstClassRaised == Called /\ MV_stats # None /\ pc = "raised" /\ error = "IndexError"

\* C23: the annotator table gives every annotator a worst class, which is a
\* class the annotator gave, of the least accuracy against the consensus
\* among the annotator's classes, among these of the largest group, among
\* these of the highest mean consensus quality score, and among these the
\* first class id.
C23_WorstClass ==
    /\ ~WorstClassRaised
    /\ (StatsBuilt /\ pc = "returned")
           => \A j \in Annotators :
                  /\ annotator_stats.rows[j].worst_class \in ClassesGiven(j)
                  /\ annotator_stats.rows[j].worst_class = ClaimedWorstClass(j)

\* the same of the tables that are built
WorstClassWhereBuilt == WorstClassRaised \/ C23_WorstClass
\* the search fails only under crowdlab, with scores that are not numbers
RaisedOnlyOnNaNScores ==
    WorstClassRaised
        => /\ quality_method = "crowdlab"
           /\ \A i \in Examples : FirstStats.post_pred_probs[i].nan
\* tables in which the mean score, and in which the class id, decides
DecidedByMeanScore ==
    /\ StatsBuilt
    /\ pc = "returned"
    /\ \E j \in Annotators :
           /\ Cardinality(LargestGroups(j)) > 1
           /\ Cardinality(HighestMeanScore(j)) = 1
           /\ ClaimedWorstClass(j) # 0
DecidedByClassId ==
    /\ StatsBuilt
    /\ pc = "returned"
    /\ \E j \in Annotators : Cardinality(HighestMeanScore(j)) > 1

\* the best_quality label of the call, the statistics of a run of the engine
\* on it, and the share of the labels of example i that equal a label
BestLabel ==
    Computed(BestQualityConsensus(majority_vote_label, MV_stats.post_pred_probs,
                                  MeanAnnotations(num_annotations)))
SecondPass(best) ==
    ComputedStats(GetConsensusStats(labels_multiannotator, pred_probs, num_annotations,
                                    best, quality_method), quality_method)
ShareEqual(i, label) ==
    Rat(Cardinality({j \in LabelsOf(i) : Row(i)[j] = label}), Cardinality(LabelsOf(i)))
\* the columns of best_quality that the returned table holds
BestQualitySuffixes ==
    {IF p = 1 THEN "" ELSE "_best_quality" :
        p \in {p \in DOMAIN consensus_method : consensus_method[p] = "best_quality"}}
BestQualityReturned ==
    /\ Called
    /\ pc = "returned"
    /\ BestQualitySuffixes # {}
ColumnsFromSecondPass(best, second) ==
    \A suffix \in BestQualitySuffixes :
        /\ label_quality["consensus_label" \o suffix] = best
        /\ label_quality["annotator_agreement" \o suffix] = second.annotator_agreement
        /\ \A i \in Examples :
               label_quality["annotator_agreement" \o suffix][i] = ShareEqual(i, best[i])
        /\ label_quality["consensus_quality_score" \o suffix]
               = GetConsensusQualityScore(best, second.post_pred_probs,
                                          second.annotator_agreement, quality_method)
TablesFromSecondPass(best, second) ==
    consensus_method[1] = "best_quality"
        => /\ return_detailed_quality =>
                  detailed_label_quality
                      = DetailedLabelQuality(labels_multiannotator, second.post_pred_probs)
           /\ return_annotator_stats =>
                  annotator_stats
                      = GetAnnotatorStats(labels_multiannotator, second, best,
                                          num_annotations, quality_method)

\* C24: what is reported for "best_quality" comes from a run of the engine
\* on the best_quality label, not from the majority-vote pass: the agreement
\* of an example is the share of its labels equal to its best_quality label,
\* the score is that of the label against the posterior of that run, and
\* where best_quality is the first method the detailed table and the
\* annotator table use the posterior and the weights of that run.
C24_BestQualitySecondPass ==
    BestQualityReturned
        => \A best \in {BestLabel} : \A second \in {SecondPass(best)} :
               /\ ColumnsFromSecondPass(best, second)
               /\ TablesFromSecondPass(best, second)

\* a returned call whose first method is best_quality, with the annotator
\* table, whose best_quality label differs from the majority vote and whose
\* second run gives a model weight and a posterior of numbers that differ
\* from those of the majority-vote pass
C24_Witness ==
    /\ BestQualityReturned
    /\ consensus_method[1] = "best_quality"
    /\ annotator_stats # None
    /\ label_quality.consensus_label # majority_vote_label
    /\ label_quality.annotator_agreement # MV_stats.annotator_agreement
    /\ quality_method = "crowdlab"
    /\ SecondPass(BestLabel).model_weight # MV_stats.model_weight
    /\ SecondPass(BestLabel).post_pred_probs # MV_stats.post_pred_probs
    /\ \A i \in Examples : ~SecondPass(BestLabel).post_pred_probs[i].nan

(***************************************************************************)
(* Properties of the annotators without overlap, checked under SpecOverlap.*)
(***************************************************************************)
\* annotator j shares no example with another annotator
SharesNoExample(j) == \A i \in Examples : j \in LabelsOf(i) => LabelsOf(i) = {j}
WithoutOverlap == {j \in Annotators : SharesNoExample(j)}
\* the agreement of an annotator who shares examples: the mean, over the
\* examples it labelled, of the share of the co-annotators who gave its label,
\* weighted by the number of annotations less 1
SharedAgreement(j) ==
    LET mine == {i \in Examples : j \in LabelsOf(i)}
        same == [i \in mine |->
                    Cardinality({a \in LabelsOf(i) \ {j} : Row(i)[a] = Row(i)[j]})]
        others == [i \in mine |-> Cardinality(LabelsOf(i)) - 1]
    IN  Rat(SumOver(mine, same), SumOver(mine, others))
MeanSharedAgreement ==
    RatDiv(RatSum(Annotators \ WithoutOverlap,
                  [j \in Annotators \ WithoutOverlap |-> SharedAgreement(j)]),
           Rat(Cardinality(Annotators \ WithoutOverlap), 1))
\* a note that names exactly the annotators without overlap was printed
NotePrinted ==
    \E p \in DOMAIN printed :
        {printed[p].annotators[k] : k \in DOMAIN printed[p].annotators} = WithoutOverlap
OverlapCall == CrowdlabStatsBuilt /\ WithoutOverlap # {}
AgreementImputed ==
    \A j \in Annotators :
        PairwiseAgreement(j)
            = IF j \in WithoutOverlap THEN MeanSharedAgreement ELSE SharedAgreement(j)
EveryWeightDefined ==
    \A j \in Annotators : MV_stats.annotator_weight[j].kind \in {"floor", "value"}

\* C25: an annotator who shares no example with another annotator does not
\* make the call fail: its agreement is the mean of the agreements of the
\* annotators who share examples, a note that names it is printed, and every
\* annotator gets a weight that is a number.
C25_NoOverlapImputed ==
    OverlapCall
        => /\ AgreementImputed
           /\ NotePrinted
           /\ EveryWeightDefined

\* the same without the weights, of the calls that print notes
ImputedAndNoted ==
    (OverlapCall /\ verbose) => (AgreementImputed /\ NotePrinted)
\* the same of all calls
ImputedAndNotedAlways ==
    OverlapCall => (AgreementImputed /\ NotePrinted)
\* the weights are numbers unless an agreement is 1
WeightsDefinedBelowOne ==
    OverlapCall
        => \A j \in Annotators :
               PairwiseAgreement(j) # RatOne
                   => MV_stats.annotator_weight[j].kind \in {"floor", "value"}
\* a call with an annotator without overlap, with notes, returned with
\* weights that are numbers
NoOverlapCompleted ==
    /\ OverlapCall
    /\ pc = "returned"
    /\ verbose
    /\ NotePrinted
    /\ EveryWeightDefined

(***************************************************************************)
(* Properties of the calls with lists of methods, checked under SpecLists. *)
(***************************************************************************)
\* the consensus label column that pass p of the loop writes
LabelColumn(p) ==
    IF p = 1 THEN "consensus_label" ELSE "consensus_label_" \o consensus_method[p]
PassesDone == {p \in DOMAIN consensus_method : p < curr}
\* the statistics kept from before the loop are those of the vector, and every
\* pass that has run wrote the vector for majority_vote, and for best_quality
\* the single greatest position of the kept posterior or else the vector's label
FromOneVector ==
    (Called /\ MV_stats # None)
        => /\ MV_stats = GetConsensusStats(labels_multiannotator, pred_probs,
                                           num_annotations, majority_vote_label,
                                           quality_method)
           /\ \A p \in PassesDone : \A i \in Examples :
                  IF consensus_method[p] = "best_quality"
                         /\ Cardinality(PosteriorMaxima(i)) = 1
                  THEN label_quality[LabelColumn(p)][i] \in PosteriorMaxima(i)
                  ELSE label_quality[LabelColumn(p)][i] = majority_vote_label[i]
\* once get_majority_vote_label has returned, no step of the call changes the
\* vector, draws again or warns again, and no pass of the loop changes the
\* statistics kept from before the loop
AfterResolver == Called /\ pc \in {"return", "loop"}
VectorKept ==
    /\ majority_vote_label' = majority_vote_label
    /\ warnings' = warnings
    /\ <<nontied_idx, tied_idx>>' = <<nontied_idx, tied_idx>>
    /\ pc = "loop" => MV_stats' = MV_stats

\* C26: in a call the majority vote label vector, with its random choices, is
\* computed once, before the loop over the methods: the labels written for
\* "majority_vote", the posterior of which "best_quality" takes the greatest
\* position, and the label "best_quality" falls back on all come from that
\* one vector, however often and in whatever order the methods are listed.
C26_OneMajorityVote ==
    []FromOneVector /\ [][AfterResolver => VectorKept]_vars

\* a returned call for best_quality then majority_vote in which an example's
\* label was chosen at random and best_quality fell back on it
C26_Witness ==
    /\ Called
    /\ pc = "returned"
    /\ consensus_method = <<"best_quality", "majority_vote">>
    /\ \E p \in DOMAIN warnings : \E k \in DOMAIN warnings[p].examples :
           /\ warnings[p].category = "breaking ties by random selection"
           /\ Cardinality(PosteriorMaxima(warnings[p].examples[k])) # 1
           /\ label_quality.consensus_label[warnings[p].examples[k]]
                  = majority_vote_label[warnings[p].examples[k]]
           /\ label_quality.consensus_label_majority_vote = majority_vote_label

(***************************************************************************)
(* best_quality under the quality method "agreement", checked under Spec.  *)
(***************************************************************************)
\* C27: under the quality method "agreement" the label of "best_quality" is
\* the label of "majority_vote" for every example.
C27_BestQualityIsMajorityVote ==
    (Called /\ quality_method = "agreement")
        => \A column \in BestQualityColumns : \A i \in Examples :
               label_quality[column][i] = majority_vote_label[i]

\* the same where the classes used are the class ids below some number, so
\* that the columns of the posterior are at the positions of their classes
SameLabelWhereClassesFromZero == EveryClassOccurs => C27_BestQualityIsMajorityVote
\* a table of best_quality labels is returned under "agreement" for a matrix
\* with a tie and the classes used from 0 on
AgreementBestQualityReturned ==
    /\ Called
    /\ pc = "returned"
    /\ quality_method = "agreement"
    /\ EveryClassOccurs
    /\ BestQualityColumns # {}
    /\ Len(nontied_idx) < Cardinality(Examples)
====
